---- MODULE Spec2Model ----
(***************************************************************************)
(* Account x model health tracker and event recorder / SSE broker of the   *)
(* proxy (src/src/modules/event-manager.js).  JavaScript runs each handler *)
(* to completion on one thread, so every exported function is one action.  *)
(***************************************************************************)
EXTENDS Integers, Sequences, FiniteSets, TLC

VARIABLES
    health,        \* account.health of every account: email -> (modelId -> record)
    healthConfig,  \* the module-level healthConfig object
    configFile,    \* the health section of the main config file, as last saved
    events,        \* the in-memory event log (array)
    isDirty,       \* log changed since the last snapshot
    file,          \* EVENTS_FILE: its text, or Null while it does not exist
    recorded,      \* how many events record() has appended since start-up
    sseClients,    \* the Set of live subscribers, in insertion order
    res,           \* every response object: its lifecycle and the frames written to it
    now,           \* Date.now(), in ms
    ticks,         \* how many times the clock has advanced
    results,       \* how many results have been reported to the tracker
    dashboard,     \* the dashboard's health settings page and its requests under way
    call           \* the last call made and what it returned

configVars == <<healthConfig, configFile>>
healthVars == <<health, healthConfig, configFile>>
eventVars  == <<events, isDirty, file, recorded, sseClients, res>>
clockVars  == <<now, ticks>>
vars == <<health, healthConfig, configFile, events, isDirty, file, recorded, sseClients, res,
          now, ticks, results, dashboard, call>>

----------------------------------------------------------------------------
(* Bounds of the model *)

MaxResults == 4    \* results reported to the tracker
MaxStreak  == 6    \* the same, where only results are reported
MaxTimed   == 3    \* the same, where time passes
ShortThreshold == 2   \* a configured consecutiveFailureThreshold
MaxEvents  == 2    \* events recorded since start-up
MaxTicks   == 2    \* clock advances
MaxRand    == 1    \* crypto.randomBytes(4) ranges over 0..MaxRand
MaxPreload == 2    \* events loaded from the snapshot at start-up (small case)
MaxLimit   == 1    \* the limit a subscription asks for
ShortMaxCount == 2 \* a configured eventMaxCount

Accounts == {"a@x"}
Models   == {"m1", "m2"}
Clients  == {"r1", "r2"}

----------------------------------------------------------------------------
(* Values *)

Null      == <<>>                 \* null / undefined
Some(v)   == <<v>>
IsNull(o) == o = <<>>
Val(o)    == o[1]

Min(a, b) == IF a <= b THEN a ELSE b
Max(a, b) == IF a >= b THEN a ELSE b

MsPerDay == 86400000

\* new Date(t).toISOString(): calendar day and time of day, at ms precision
toISOString(t) == [day |-> t \div MsPerDay, ms |-> t % MsPerDay]
\* new Date(iso).getTime()
getTime(iso) == iso.day * MsPerDay + iso.ms

\* A JavaScript number that is a quotient of integers, kept in lowest terms
RECURSIVE GCD(_, _)
GCD(a, b) == IF b = 0 THEN a ELSE GCD(b, a % b)
Num(n, d) == LET g == GCD(IF n < 0 THEN -n ELSE n, d)
             IN  [n |-> n \div g, d |-> d \div g]
NumLess(p, q) == p.n * q.d < q.n * p.d
NumMin(p, q) == IF NumLess(q, p) THEN q ELSE p
NumMax(p, q) == IF NumLess(p, q) THEN q ELSE p
NumSub(p, k) == Num(p.n - k * p.d, p.d)

----------------------------------------------------------------------------
(* Health configuration *)

DefaultThreshold      == 5
DefaultWarning        == 40
DefaultCritical       == 25
DefaultAutoRecoveryMs == 86400000
DefaultEventMaxCount  == 10000
DefaultRetentionDays  == 30

DEFAULT_CONFIG ==
    [consecutiveFailureThreshold |-> DefaultThreshold,
     warningThreshold            |-> DefaultWarning,
     criticalThreshold           |-> DefaultCritical,
     autoDisableEnabled          |-> TRUE,
     autoRecoveryMs              |-> DefaultAutoRecoveryMs,
     eventMaxCount               |-> DefaultEventMaxCount,
     eventRetentionDays          |-> DefaultRetentionDays]

----------------------------------------------------------------------------
(* Health records *)

initHealth ==
    [successCount        |-> 0,
     failCount           |-> 0,
     consecutiveFailures |-> 0,
     lastSuccess         |-> Null,
     lastError           |-> Null,
     healthScore         |-> Num(100, 1),
     disabled            |-> FALSE,
     manualDisabled      |-> FALSE,
     disabledReason      |-> Null,
     disabledAt          |-> Null]

PenaltyPerFailure == 6
MaxPenalty        == 30

calculateScore(h) ==
    LET total == h.successCount + h.failCount
        baseScore == Num(h.successCount * 100, total)
        consecutivePenalty == Min(h.consecutiveFailures * PenaltyPerFailure, MaxPenalty)
    IN  IF total = 0 THEN Num(100, 1)
        ELSE NumMax(Num(0, 1), NumMin(Num(100, 1), NumSub(baseScore, consecutivePenalty)))

HasHealth(a, m) == m \in DOMAIN health[a]

\* account.health[modelId] = h
PutHealth(a, m, h) ==
    [health EXCEPT ![a] = [k \in DOMAIN health[a] \cup {m} |-> IF k = m THEN h ELSE health[a][k]]]

\* account.health[modelId], created by initHealth() when missing
EnsuredHealth(a, m) == IF HasHealth(a, m) THEN health[a][m] ELSE initHealth

----------------------------------------------------------------------------
(* Event recorder *)

\* a || b for an optional string: null, undefined and '' are falsy
OrElse(o, d) == IF IsNull(o) \/ o = Some("") THEN d ELSE Val(o)
\* a || null
OrNull(o) == IF IsNull(o) \/ o = Some("") THEN Null ELSE o

\* { ...a, ...b }
Spread(a, b) == [k \in DOMAIN a \cup DOMAIN b |-> IF k \in DOMAIN b THEN b[k] ELSE a[k]]

RandomBytes == 0..MaxRand

generateEventId(t, rnd) == <<"evt_", t, "_", rnd>>

\* JSON.stringify(v): the text of v, for a v of strings, numbers, booleans,
\* null, arrays and plain objects
JSONstringify(v) == [json |-> v]

\* JSON.stringify(v, null, 2): the text of v, indented by two spaces
JSONstringifyIndented(v) == [json |-> v, indent |-> 2]

\* The JSON text of an array, which no object's text equals
Array(items) == [array |-> items]

\* A parsed JSON value that is not an array, held where the log is kept
NonArray(v) == <<[value |-> v]>>
IsArray(log) == ~(Len(log) = 1 /\ "value" \in DOMAIN log[1])

\* An object that holds a reference to itself (d.self = d)
Cyclic == [self |-> "[Circular]"]

\* JSON.stringify throws a TypeError on a cyclic structure
StringifyThrows(event) == event.details = Cyclic
TypeError == [exception |-> "TypeError"]

\* the SSE frame `data: ${data}\n\n`
Frame(data) == <<"data: ", data, "\n\n">>

\* res.write(frame) that returns normally
Written(r, frame) == [r EXCEPT !.frames = Append(@, frame)]

\* The for-loop of broadcast over sseClients[i..]: a write that throws puts the
\* client on deadClients and writes nothing.  fails = the clients whose write throws.
RECURSIVE BroadcastLoop(_, _, _, _, _)
BroadcastLoop(i, data, fails, rs, deadClients) ==
    IF i > Len(sseClients) THEN [res |-> rs, deadClients |-> deadClients]
    ELSE LET client == sseClients[i]
         IN  IF client \in fails
             THEN BroadcastLoop(i + 1, data, fails,
                                [rs EXCEPT ![client].failed = TRUE],
                                deadClients \cup {client})
             ELSE BroadcastLoop(i + 1, data, fails,
                                [rs EXCEPT ![client] = Written(@, Frame(data))],
                                deadClients)

\* Set.delete of every member of dead, keeping insertion order
DeleteAll(clients, dead) == SelectSeq(clients, LAMBDA c : c \notin dead)

\* The loop as it would run without the try/catch: the first throw ends it
RECURSIVE BroadcastLoopAbort(_, _, _, _, _)
BroadcastLoopAbort(i, data, fails, rs, deadClients) ==
    IF i > Len(sseClients) THEN [res |-> rs, deadClients |-> deadClients]
    ELSE LET client == sseClients[i]
         IN  IF client \in fails
             THEN [res |-> [rs EXCEPT ![client].failed = TRUE],
                   deadClients |-> deadClients \cup {client}]
             ELSE BroadcastLoopAbort(i + 1, data, fails,
                                     [rs EXCEPT ![client] = Written(@, Frame(data))],
                                     deadClients)

broadcastAbortOnThrow(event, fails) ==
    LET done == BroadcastLoopAbort(1, JSONstringify(event), fails, res, {})
    IN  [res |-> done.res, sseClients |-> DeleteAll(sseClients, done.deadClients),
         threw |-> FALSE]

\* Dead clients are never reaped
broadcastKeepDead(event, fails) ==
    LET done == BroadcastLoop(1, JSONstringify(event), fails, res, {})
    IN  [res |-> done.res, sseClients |-> sseClients, threw |-> FALSE]

\* broadcast(event): JSON.stringify(event) is outside the try, so its
\* exception leaves broadcast before any write
broadcast(event, fails) ==
    LET done == BroadcastLoop(1, JSONstringify(event), fails, res, {})
    IN  IF StringifyThrows(event)
        THEN [res |-> res, sseClients |-> sseClients, threw |-> TRUE]
        ELSE [res |-> done.res, sseClients |-> DeleteAll(sseClients, done.deadClients),
              threw |-> FALSE]

\* The event record() builds at time t.  A message is the sequence of the parts
\* of its template; '' and {} are <<>>.
NewEvent(eventData, t, rnd) ==
                 [id        |-> generateEventId(t, rnd),
                  timestamp |-> toISOString(t),
                  type      |-> OrElse(eventData.type, "system"),
                  requestId |-> OrNull(eventData.requestId),
                  account   |-> OrNull(eventData.account),
                  model     |-> OrNull(eventData.model),
                  severity  |-> OrElse(eventData.severity, "info"),
                  message   |-> IF IsNull(eventData.message) THEN <<>> ELSE Val(eventData.message),
                  details   |-> IF IsNull(eventData.details) THEN <<>> ELSE Val(eventData.details)]

\* A recorder that puts the new event in front of the log
recordPrepends(eventData, t, rnd, fails) ==
    LET event == NewEvent(eventData, t, rnd)
        sent == broadcast(event, fails)
    IN  [event      |-> event,
         threw      |-> sent.threw,
         events     |-> <<event>> \o events,
         isDirty    |-> TRUE,
         sseClients |-> sent.sseClients,
         res        |-> sent.res]

\* record(eventData) at time t: the event, the module state it leaves, and
\* whether the call ends in the exception of broadcast instead of a return
record(eventData, t, rnd, fails) ==
    LET event == NewEvent(eventData, t, rnd)
        sent == broadcast(event, fails)
    IN  IF ~IsArray(events)
        THEN \* events.push is not a function
             [event      |-> event,
              threw      |-> TRUE,
              events     |-> events,
              isDirty    |-> isDirty,
              sseClients |-> sseClients,
              res        |-> res]
        ELSE [event      |-> event,
              threw      |-> sent.threw,
              events     |-> Append(events, event),
              isDirty    |-> TRUE,
              sseClients |-> sent.sseClients,
              res        |-> sent.res]

recordHealthChange(account, model, change, details) ==
    [type      |-> Some("health_change"),
     requestId |-> Null,
     account   |-> Some(account),
     model     |-> Some(model),
     severity  |-> Some(IF change = "disabled" THEN "error" ELSE "info"),
     message   |-> Some(<<"Health ", change, " for ", account, " on ", model>>),
     details   |-> Some(Spread(details, [change |-> change]))]

Range(f) == {f[i] : i \in DOMAIN f}

\* The environment of a call that records an event: the random bytes drawn for
\* its id, and the live subscribers whose write throws
Env(R) == [rnd : R, fails : SUBSET Range(sseClients)]

\* The events a call emits (at most one) are recorded; a call that emits none
\* leaves the recorder alone.  At most MaxEvents events are recorded.
Emit(emitted, env) ==
    IF emitted = <<>>
    THEN UNCHANGED eventVars
    ELSE /\ recorded < MaxEvents
         /\ LET r == record(emitted[1], now, env.rnd, env.fails)
            IN  /\ events' = r.events
                /\ isDirty' = r.isDirty
                /\ file' = file
                /\ recorded' = recorded + 1
                /\ sseClients' = r.sseClients
                /\ res' = r.res

----------------------------------------------------------------------------
(* Health tracker *)

\* The error objects callers pass: none, or one with a message and a status code
Errors == {Null,
           Some([message |-> Some("quota exhausted"), code |-> Null, statusCode |-> Some(429)])}

\* error?.x
Field(error, x) == IF IsNull(error) THEN Null ELSE Val(error)[x]

\* as RecoveredBySuccess, but the event is dispatched before the flag is cleared
RecoveredBySuccessEmitsFirst(h, a, m) ==
    [health  |-> [h EXCEPT !.disabled = FALSE,
                           !.disabledReason = Null,
                           !.disabledAt = Null],
     emitted |-> <<recordHealthChange(a, m, "recovered",
                     [previousState |-> "disabled", trigger |-> "successful_request"])>>,
     seen    |-> h]

\* recordResult, lines 703-711: the record re-enabled, the event reported, and
\* the record as it stands (seen) when the event is handed to the recorder
RecoveredBySuccess(h, a, m) ==
    LET h2 == [h EXCEPT !.disabled = FALSE,
                        !.disabledReason = Null,
                        !.disabledAt = Null]
    IN  [health  |-> h2,
         emitted |-> <<recordHealthChange(a, m, "recovered",
                         [previousState |-> "disabled", trigger |-> "successful_request"])>>,
         seen    |-> h2]

\* The counters of a success
Succeeded(h, t) ==
    [h EXCEPT !.successCount = @ + 1,
              !.consecutiveFailures = 0,
              !.lastSuccess = Some(toISOString(t))]

\* as ResultSuccess, but the streak is reset only when the record recovers
ResultSuccessKeepsStreak(h, a, m, t) ==
    LET h1 == [h EXCEPT !.successCount = @ + 1, !.lastSuccess = Some(toISOString(t))]
    IN  IF h1.disabled /\ ~h1.manualDisabled
        THEN RecoveredBySuccess([h1 EXCEPT !.consecutiveFailures = 0], a, m)
        ELSE [health |-> h1, emitted |-> <<>>]

\* as ResultSuccess, but the recovery leaves disabledReason and disabledAt set
ResultSuccessKeepsStamp(h, a, m, t) ==
    LET h1 == Succeeded(h, t)
    IN  IF h1.disabled /\ ~h1.manualDisabled
        THEN [health  |-> [h1 EXCEPT !.disabled = FALSE],
              emitted |-> RecoveredBySuccess(h1, a, m).emitted,
              seen    |-> [h1 EXCEPT !.disabled = FALSE]]
        ELSE [health |-> h1, emitted |-> <<>>]

\* A success branch that recovers the record without reporting it
ResultSuccessSilent(h, a, m, t) ==
    LET h1 == Succeeded(h, t)
    IN  IF h1.disabled /\ ~h1.manualDisabled
        THEN [health  |-> RecoveredBySuccess(h1, a, m).health, emitted |-> <<>>]
        ELSE [health |-> h1, emitted |-> <<>>]

\* recordResult, success branch: the record and the health change to report
ResultSuccess(h, a, m, t) ==
    LET h1 == Succeeded(h, t)
    IN  IF h1.disabled /\ ~h1.manualDisabled
        THEN RecoveredBySuccess(h1, a, m)
        ELSE [health |-> h1, emitted |-> <<>>]

\* as Failed, but failCount is written from the streak, not incremented
FailedFromStreak(h, error, t) ==
    [h EXCEPT !.failCount = h.consecutiveFailures + 1,
              !.consecutiveFailures = @ + 1,
              !.lastError = Some([message   |-> OrElse(Field(error, "message"), "Unknown error"),
                                  code      |-> IF ~IsNull(Field(error, "code"))
                                                THEN Field(error, "code")
                                                ELSE Field(error, "statusCode"),
                                  timestamp |-> toISOString(t)])]

\* The counters of a failure
Failed(h, error, t) ==
    [h EXCEPT !.failCount = @ + 1,
              !.consecutiveFailures = @ + 1,
              !.lastError = Some([message   |-> OrElse(Field(error, "message"), "Unknown error"),
                                  code      |-> IF ~IsNull(Field(error, "code"))
                                                THEN Field(error, "code")
                                                ELSE Field(error, "statusCode"),
                                  timestamp |-> toISOString(t)])]

\* recordResult, lines 729-738: the record auto-disabled, and the event reported
AutoDisabled(h, a, m, t) ==
    LET reason == <<"Auto: ", h.consecutiveFailures, " consecutive failures">>
        h2 == [h EXCEPT !.disabled = TRUE,
                        !.disabledReason = Some(reason),
                        !.disabledAt = Some(toISOString(t))]
    IN  [health  |-> h2,
         emitted |-> <<recordHealthChange(a, m, "disabled",
                         [reason |-> reason,
                          consecutiveFailures |-> h.consecutiveFailures,
                          lastError |-> h.lastError])>>,
         seen    |-> h2]

\* as ResultFailure, but a record already disabled is disabled again
\* A failure branch that disables only when the streak equals the threshold
ResultFailureAtThresholdOnly(h, a, m, error, t) ==
    LET h1 == Failed(h, error, t)
    IN  IF /\ healthConfig.autoDisableEnabled
           /\ ~h1.disabled
           /\ ~h1.manualDisabled
           /\ h1.consecutiveFailures = healthConfig.consecutiveFailureThreshold
        THEN AutoDisabled(h1, a, m, t)
        ELSE [health |-> h1, emitted |-> <<>>]

\* A failure branch that disables whatever autoDisableEnabled says
ResultFailureIgnoresSwitch(h, a, m, error, t) ==
    LET h1 == Failed(h, error, t)
    IN  IF /\ ~h1.disabled
           /\ ~h1.manualDisabled
           /\ h1.consecutiveFailures >= healthConfig.consecutiveFailureThreshold
        THEN AutoDisabled(h1, a, m, t)
        ELSE [health |-> h1, emitted |-> <<>>]

ResultFailureRedisables(h, a, m, error, t) ==
    LET h1 == Failed(h, error, t)
    IN  IF /\ healthConfig.autoDisableEnabled
           /\ ~h1.manualDisabled
           /\ h1.consecutiveFailures >= healthConfig.consecutiveFailureThreshold
        THEN AutoDisabled(h1, a, m, t)
        ELSE [health |-> h1, emitted |-> <<>>]

\* recordResult, failure branch
ResultFailure(h, a, m, error, t) ==
    LET h1 == Failed(h, error, t)
    IN  IF /\ healthConfig.autoDisableEnabled
           /\ ~h1.disabled
           /\ ~h1.manualDisabled
           /\ h1.consecutiveFailures >= healthConfig.consecutiveFailureThreshold
        THEN AutoDisabled(h1, a, m, t)
        ELSE [health |-> h1, emitted |-> <<>>]

\* The record as the recorder's caller left it when the event was dispatched
Seen(r) == IF r.emitted = <<>> THEN Null ELSE Some(r.seen)

\* recordResult(account, modelId, success, error) on the record h
recordResult(h, a, m, success, error, t) ==
    LET branch == IF success THEN ResultSuccess(h, a, m, t) ELSE ResultFailure(h, a, m, error, t)
    IN  [health  |-> [branch.health EXCEPT !.healthScore = calculateScore(branch.health)],
         emitted |-> branch.emitted,
         seen    |-> Seen(branch)]

\* A timeout recovery that leaves the disabling time on the record
RecoveredByTimeoutKeepsStamp(h, a, m, disabledTime) ==
    LET h2 == [h EXCEPT !.disabled = FALSE,
                        !.consecutiveFailures = 0,
                        !.disabledReason = Null]
    IN  [health  |-> h2,
         emitted |-> <<recordHealthChange(a, m, "recovered",
                         [previousState |-> "disabled",
                          trigger |-> "auto_recovery_timeout",
                          disabledDurationMs |-> disabledTime])>>,
         seen    |-> h2,
         ret     |-> TRUE]

\* isModelUsable, lines 774-786: the record re-enabled after disabledTime ms
RecoveredByTimeout(h, a, m, disabledTime) ==
    LET h2 == [h EXCEPT !.disabled = FALSE,
                        !.consecutiveFailures = 0,
                        !.disabledReason = Null,
                        !.disabledAt = Null]
    IN  [health  |-> h2,
         emitted |-> <<recordHealthChange(a, m, "recovered",
                         [previousState |-> "disabled",
                          trigger |-> "auto_recovery_timeout",
                          disabledDurationMs |-> disabledTime])>>,
         seen    |-> h2,
         ret     |-> TRUE]

\* Date.now() - new Date(health.disabledAt).getTime()
DisabledTime(h, t) == t - getTime(Val(h.disabledAt))

\* as isModelUsable, but a record disabled by hand recovers by timeout too
isModelUsableRecoversManual(h, a, m, t) ==
    IF /\ h.disabled /\ ~IsNull(h.disabledAt)
       /\ DisabledTime(h, t) > healthConfig.autoRecoveryMs
    THEN RecoveredByTimeout(h, a, m, DisabledTime(h, t))
    ELSE [health |-> h, emitted |-> <<>>, ret |-> ~h.disabled /\ ~h.manualDisabled]

\* as isModelUsable, but recovering as soon as autoRecoveryMs have passed
isModelUsableAtTimeout(h, a, m, t) ==
    IF /\ h.disabled /\ ~h.manualDisabled /\ ~IsNull(h.disabledAt)
       /\ DisabledTime(h, t) >= healthConfig.autoRecoveryMs
    THEN RecoveredByTimeout(h, a, m, DisabledTime(h, t))
    ELSE [health |-> h, emitted |-> <<>>, ret |-> ~h.disabled /\ ~h.manualDisabled]

\* as isModelUsable, but answering from the disabled flag alone
isModelUsableIgnoresManual(h, a, m, t) ==
    IF /\ h.disabled /\ ~h.manualDisabled /\ ~IsNull(h.disabledAt)
       /\ DisabledTime(h, t) > healthConfig.autoRecoveryMs
    THEN RecoveredByTimeout(h, a, m, DisabledTime(h, t))
    ELSE [health |-> h, emitted |-> <<>>, ret |-> ~h.disabled]

\* as isModelUsable, but only the manual flag makes a pair unusable
isModelUsableWhileDisabled(h, a, m, t) ==
    [health |-> h, emitted |-> <<>>, ret |-> ~h.manualDisabled]

\* isModelUsable(account, modelId) on an existing record h
isModelUsable(h, a, m, t) ==
    IF /\ h.disabled /\ ~h.manualDisabled /\ ~IsNull(h.disabledAt)
       /\ DisabledTime(h, t) > healthConfig.autoRecoveryMs
    THEN RecoveredByTimeout(h, a, m, DisabledTime(h, t))
    ELSE [health |-> h, emitted |-> <<>>, ret |-> ~h.disabled /\ ~h.manualDisabled]

\* A toggle whose enabling also forgets the failure streak
toggleModelResetsStreak(h, enabled, t) ==
    IF enabled
    THEN [h EXCEPT !.manualDisabled = FALSE,
                   !.disabled = FALSE,
                   !.consecutiveFailures = 0,
                   !.disabledReason = Null,
                   !.disabledAt = Null]
    ELSE [h EXCEPT !.manualDisabled = TRUE,
                   !.disabledReason = Some(<<"Manually disabled">>),
                   !.disabledAt = Some(toISOString(t))]

\* A toggle that flips the manual flag instead of setting it
toggleModelFlips(h, enabled, t) ==
    IF enabled
    THEN [h EXCEPT !.manualDisabled = ~h.manualDisabled,
                   !.disabled = FALSE,
                   !.disabledReason = Null,
                   !.disabledAt = Null]
    ELSE [h EXCEPT !.manualDisabled = TRUE,
                   !.disabledReason = Some(<<"Manually disabled">>),
                   !.disabledAt = Some(toISOString(t))]

\* toggleModel(account, modelId, enabled) on the record h
toggleModel(h, enabled, t) ==
    IF enabled
    THEN [h EXCEPT !.manualDisabled = FALSE,
                   !.disabled = FALSE,
                   !.disabledReason = Null,
                   !.disabledAt = Null]
    ELSE [h EXCEPT !.manualDisabled = TRUE,
                   !.disabledReason = Some(<<"Manually disabled">>),
                   !.disabledAt = Some(toISOString(t))]

\* A reset that keeps the manual flag
resetHealthKeepsManual(a, modelId) ==
    IF ~IsNull(modelId)
    THEN IF HasHealth(a, Val(modelId))
         THEN PutHealth(a, Val(modelId),
                        [initHealth EXCEPT !.manualDisabled = health[a][Val(modelId)].manualDisabled])
         ELSE health
    ELSE [health EXCEPT ![a] = <<>>]

\* resetHealth(account, modelId): modelId is null to reset every model
resetHealth(a, modelId) ==
    IF ~IsNull(modelId)
    THEN IF HasHealth(a, Val(modelId)) THEN PutHealth(a, Val(modelId), initHealth) ELSE health
    ELSE [health EXCEPT ![a] = <<>>]

----------------------------------------------------------------------------
(* Actions of the health tracker *)

Called(op, a, m, arg, ret) ==
    [op |-> op, account |-> a, model |-> m, arg |-> arg, ret |-> ret, seen |-> Null]

\* A call that dispatched an event while the record stood as seen
CalledSeen(op, a, m, arg, ret, seen) == [Called(op, a, m, arg, ret) EXCEPT !.seen = seen]

RecordResult(a, m, success, error, env) ==
    /\ LET r == recordResult(EnsuredHealth(a, m), a, m, success, error, now)
       IN  /\ health' = PutHealth(a, m, r.health)
           /\ Emit(r.emitted, env)
           /\ call' = CalledSeen("recordResult", a, Some(m), success, Null, r.seen)
    /\ results' = results + 1
    /\ UNCHANGED <<configVars, now, ticks, dashboard>>

IsModelUsable(a, m, env) ==
    /\ IF ~HasHealth(a, m)
       THEN /\ call' = Called("isModelUsable", a, Some(m), Null, TRUE)
            /\ UNCHANGED <<health, eventVars>>
       ELSE LET r == isModelUsable(health[a][m], a, m, now)
            IN  /\ health' = PutHealth(a, m, r.health)
                /\ Emit(r.emitted, env)
                /\ call' = CalledSeen("isModelUsable", a, Some(m), Null, r.ret, Seen(r))
    /\ UNCHANGED <<configVars, now, ticks, dashboard, results>>

ToggleModel(a, m, enabled) ==
    /\ health' = PutHealth(a, m, toggleModel(EnsuredHealth(a, m), enabled, now))
    /\ call' = Called("toggleModel", a, Some(m), enabled, Null)
    /\ UNCHANGED <<configVars, eventVars, now, ticks, dashboard, results>>

ResetHealth(a, modelId) ==
    /\ health' = resetHealth(a, modelId)
    /\ call' = Called("resetHealth", a, modelId, Null, TRUE)
    /\ UNCHANGED <<configVars, eventVars, now, ticks, dashboard, results>>

\* Time passes between calls: a millisecond, or a whole recovery period
Tick(d) ==
    /\ ticks < MaxTicks
    /\ now' = now + d
    /\ ticks' = ticks + 1
    /\ call' = Called("tick", "", Null, d, Null)
    /\ UNCHANGED <<healthVars, eventVars, results, dashboard>>

NewRes == [status |-> "new", frames |-> <<>>, failed |-> FALSE, onClose |-> FALSE,
           headers |-> {}, options |-> Null, logLen |-> 0]

\* healthConfig = { ...DEFAULT_CONFIG, ...config.health }
LoadedConfig(override) == Spread(DEFAULT_CONFIG, override)

\* The settings page once init() has fetched the config: what it shows, its
\* debounce timer (the updates its callback will send), the POST requests on
\* their way to the server, the answers on their way back, and what the
\* operator has set so far
OpenedPage(config) ==
    [healthConfig |-> config, timer |-> Null, requests |-> <<>>, responses |-> <<>>,
     edited |-> <<>>, edits |-> 0]

\* The module state once loaded, with config.health = override and the
\* snapshot holding log
Loaded(override, log) ==
    /\ health = [a \in Accounts |-> <<>>]
    /\ healthConfig = LoadedConfig(override)
    /\ configFile = override
    /\ events = log
    /\ isDirty = FALSE
    /\ file = IF log = <<>> THEN Null ELSE Some(JSONstringifyIndented(Array(log)))
    /\ recorded = 0
    /\ sseClients = <<>>
    /\ res = [c \in Clients |-> NewRes]
    /\ ticks = 0
    /\ results = 0
    /\ dashboard = OpenedPage(healthConfig)
    /\ call = Called("init", "", Null, Null, Null)

\* The calls a specification makes: on the models M, with the errors E, the
\* random bytes R, and while fewer than max results have been reported

DoRecordResult(M, E, R, max) ==
    /\ results < max
    /\ \E a \in Accounts, m \in M, success \in BOOLEAN, env \in Env(R) :
         \E error \in IF success THEN {Null} ELSE E : RecordResult(a, m, success, error, env)
DoIsModelUsable(M, R) ==
    \E a \in Accounts, m \in M, env \in Env(R) : IsModelUsable(a, m, env)
DoToggleModel(M) == \E a \in Accounts, m \in M, enabled \in BOOLEAN : ToggleModel(a, m, enabled)
DoResetHealth(M) == \E a \in Accounts, modelId \in {Null} \cup {Some(m) : m \in M} : ResetHealth(a, modelId)
DoTick == \E d \in {1, healthConfig.autoRecoveryMs} : Tick(d)

----------------------------------------------------------------------------
(* The tracker under the default configuration: results and reads only *)

InitStreak == Loaded(<<>>, <<>>) /\ now = 0

NextStreak ==
    \/ DoRecordResult(Models, Errors, RandomBytes, MaxStreak)
    \/ DoIsModelUsable(Models, RandomBytes)

SpecStreak == InitStreak /\ [][NextStreak]_vars

----------------------------------------------------------------------------
(* The tracker with a short failure threshold configured: every operation on
   every pair, at one instant *)

InitHealth == Loaded([consecutiveFailureThreshold |-> ShortThreshold], <<>>) /\ now = 0

NextHealth ==
    \/ DoRecordResult(Models, Errors, RandomBytes, MaxResults)
    \/ DoIsModelUsable(Models, RandomBytes)
    \/ DoToggleModel(Models)
    \/ DoResetHealth(Models)

SpecHealth == InitHealth /\ [][NextHealth]_vars

----------------------------------------------------------------------------
(* The same on one pair, with time passing *)

NextRecovery ==
    \/ DoRecordResult({"m1"}, Errors, RandomBytes, MaxTimed)
    \/ DoIsModelUsable({"m1"}, RandomBytes)
    \/ DoToggleModel({"m1"})
    \/ DoResetHealth({"m1"})
    \/ DoTick

SpecRecovery == InitHealth /\ [][NextRecovery]_vars

----------------------------------------------------------------------------
(* Event stream: subscribers of GET /api/events/stream *)

HistoryLimitDefault == 100

\* Array.prototype.slice(start): a negative start counts from the end
Slice(arr, start) ==
    LET n == Len(arr)
        from == IF start < 0 THEN Max(n + start, 0) ELSE Min(start, n)
    IN  SubSeq(arr, from + 1, n)

\* options.historyLimit || 100: undefined and 0 are falsy
HistoryLimit(options) ==
    IF IsNull(options.historyLimit) \/ options.historyLimit = Some(0)
    THEN HistoryLimitDefault
    ELSE Val(options.historyLimit)

\* A history that leaves out the newest event
historyEventsButNewest(options) ==
    SubSeq(Slice(events, 0 - HistoryLimit(options)), 1,
           Len(Slice(events, 0 - HistoryLimit(options))) - 1)

\* events.slice(-limit)
historyEvents(options) == Slice(events, 0 - HistoryLimit(options))

SSEHeaders == {<<"Content-Type", "text/event-stream">>, <<"Cache-Control", "no-cache">>,
               <<"Connection", "keep-alive">>, <<"X-Accel-Buffering", "no">>}

Connected(t) == Frame(JSONstringify([type |-> "connected", timestamp |-> toISOString(t)]))

\* Set.add: insertion order, no duplicates
SetAdd(clients, c) == IF c \in Range(clients) THEN clients ELSE Append(clients, c)

\* Whether registerSSEClient writes a history batch
SendsHistory(options) == options.history /\ Len(historyEvents(options)) > 0

\* Whether JSON.stringify(historyEvents) throws
HistoryThrows(options) ==
    \E i \in 1..Len(historyEvents(options)) : StringifyThrows(historyEvents(options)[i])

\* registerSSEClient(res, options) at time t.  throws names the write that
\* throws: "none", "connected" or "history"; the exception leaves the handler
\* before the client is added and before its close listener is set; so does
\* the TypeError of JSON.stringify(historyEvents).
registerSSEClient(c, options, t, throws) ==
    LET r0 == [res[c] EXCEPT !.status = "open",
                             !.headers = SSEHeaders,
                             !.options = Some(options),
                             !.logLen = Len(events)]
        r1 == Written(r0, Connected(t))
        r2 == IF SendsHistory(options)
              THEN Written(r1, Frame(JSONstringify(Array(historyEvents(options)))))
              ELSE r1
    IN  IF throws = "connected"
        THEN [res |-> [res EXCEPT ![c] = [r0 EXCEPT !.failed = TRUE]], sseClients |-> sseClients,
              threw |-> "connected"]
        ELSE IF SendsHistory(options) /\ HistoryThrows(options)
        THEN [res |-> [res EXCEPT ![c] = r1], sseClients |-> sseClients, threw |-> "TypeError"]
        ELSE IF throws = "history" /\ SendsHistory(options)
        THEN [res |-> [res EXCEPT ![c] = [r1 EXCEPT !.failed = TRUE]], sseClients |-> sseClients,
              threw |-> "history"]
        ELSE [res |-> [res EXCEPT ![c] = [r2 EXCEPT !.onClose = TRUE]],
              sseClients |-> SetAdd(sseClients, c), threw |-> "none"]

\* The route handler of /api/events/stream, for a request not seen before
RegisterSSEClient(c, options, throws) ==
    /\ res[c].status = "new"
    /\ throws = "history" => SendsHistory(options) /\ ~HistoryThrows(options)
    /\ LET r == registerSSEClient(c, options, now, throws)
       IN  /\ res' = r.res
           /\ sseClients' = r.sseClients
           /\ call' = Called("registerSSEClient", c, Null, options, r.threw)
    /\ UNCHANGED <<healthVars, events, isDirty, file, recorded, clockVars, dashboard, results>>

\* The transport of an open response closes: its 'close' listeners run
Close(c) ==
    /\ res[c].status = "open"
    /\ res' = [res EXCEPT ![c].status = "closed"]
    /\ sseClients' = IF res[c].onClose THEN DeleteAll(sseClients, {c}) ELSE sseClients
    /\ call' = Called("close", c, Null, Null, Null)
    /\ UNCHANGED <<healthVars, events, isDirty, file, recorded, clockVars, dashboard, results>>

\* A direct call of record(eventData)
Record(eventData, env) ==
    /\ Emit(<<eventData>>, env)
    /\ call' = Called("record", "", Null, eventData,
                       IF record(eventData, now, env.rnd, env.fails).threw
                       THEN TypeError
                       ELSE record(eventData, now, env.rnd, env.fails).event)
    /\ UNCHANGED <<healthVars, clockVars, dashboard, results>>

\* The event data that callers record: a system message that leaves every
\* optional field out, and a failed request
EventInputs ==
    {[type |-> Null, requestId |-> Null, account |-> Null, model |-> Null, severity |-> Null,
      message |-> Some(<<"Proxy started">>), details |-> Null],
     [type |-> Some("request"), requestId |-> Some("req-1"), account |-> Some("a@x"),
      model |-> Some("m1"), severity |-> Some("warn"),
      message |-> Some(<<"Request ", "req-1", " failed after ", 12, "ms">>),
      details |-> Some([success |-> FALSE, latencyMs |-> 12])]}

\* A snapshot of n events left by an earlier run, one per millisecond
PreloadedLog(n) ==
    [i \in 1..n |-> NewEvent([type |-> Some("system"), requestId |-> Null, account |-> Null,
                              model |-> Null, severity |-> Some("info"),
                              message |-> Some(<<"Event ", i>>), details |-> Null],
                             i - 1, 0)]

\* The options of a subscription: ?history=true&limit=k, or neither
StreamOptions ==
    {[history |-> FALSE, historyLimit |-> Null]}
        \cup {[history |-> TRUE, historyLimit |-> l] :
                l \in {Null} \cup {Some(k) : k \in (0 - 1)..MaxLimit}}

\* Requests reach the route in the order r1, r2
Arrived(c) == res[c].status # "new"
Earlier(c) == IF c = "r1" THEN {} ELSE {"r1"}

DoRegisterSSEClient(C) ==
    \E c \in C, options \in StreamOptions, throws \in {"none", "connected", "history"} :
        /\ \A b \in Earlier(c) : Arrived(b)
        /\ RegisterSSEClient(c, options, throws)
DoClose(C) == \E c \in C : Close(c)
DoRecord(I) == \E eventData \in I, env \in Env({0}) : Record(eventData, env)

\* Fan-out: two subscribers, the log empty at start-up
InitStream == Loaded(<<>>, <<>>) /\ now = 0

NextStream ==
    \/ DoRegisterSSEClient(Clients)
    \/ DoClose(Clients)
    \/ DoRecord(EventInputs)

SpecStream == InitStream /\ [][NextStream]_vars

\* Replay: one subscriber, the log loaded from a snapshot that is empty,
\* shorter than the default limit, or longer than it
InitReplay ==
    \E n \in {0, MaxPreload, HistoryLimitDefault + 1} :
        Loaded(<<>>, PreloadedLog(n)) /\ now = n

NextReplay ==
    \/ DoRegisterSSEClient({"r1"})
    \/ DoClose({"r1"})
    \/ DoRecord(EventInputs)

SpecReplay == InitReplay /\ [][NextReplay]_vars

\* An API error recorded with the caller's error object, which refers to
\* itself, as its details
CyclicInput ==
    [type |-> Some("api_error"), requestId |-> Null, account |-> Some("a@x"),
     model |-> Some("m1"), severity |-> Some("error"),
     message |-> Some(<<"Unknown", " error for ", "a@x", " on ", "m1">>),
     details |-> Some(Cyclic)]

\* Dispatch: one subscriber, callers that also record unserialisable details
NextDispatch ==
    \/ DoRegisterSSEClient({"r1"})
    \/ DoClose({"r1"})
    \/ DoRecord(EventInputs \cup {CyclicInput})

SpecDispatch == InitStream /\ [][NextDispatch]_vars

\* Ids: callers record while the clock runs and the random bytes vary
DoRecordRandom(I, R) == \E eventData \in I, env \in Env(R) : Record(eventData, env)

NextIds ==
    \/ DoRecordRandom(EventInputs, RandomBytes)
    \/ DoTick

SpecIds == InitStream /\ [][NextIds]_vars

----------------------------------------------------------------------------
(* The tracker called without an account object *)

\* No account object: null or undefined
Absent == ""

TrackerWrites == {"recordResult", "toggleModel", "resetHealth"}
TrackerReads == {"isModelUsable", "getModelHealth", "getAccountHealth"}

\* as AbsentReturn, but resetHealth reports success for no account
AbsentReturnResetSucceeds(op) ==
    CASE op = "recordResult" -> Null
      [] op = "toggleModel" -> Null
      [] op = "resetHealth" -> Some(TRUE)
      [] op = "isModelUsable" -> Some(TRUE)
      [] op = "getModelHealth" -> Null
      [] op = "getAccountHealth" -> Some(<<>>)

\* What each operation returns under `if (!account)`, as an option: Null is
\* null, Some(<<>>) is {}
AbsentReturn(op) ==
    CASE op = "recordResult" -> Null
      [] op = "toggleModel" -> Null
      [] op = "resetHealth" -> Some(FALSE)
      [] op = "isModelUsable" -> Some(TRUE)
      [] op = "getModelHealth" -> Null
      [] op = "getAccountHealth" -> Some(<<>>)

\* An operation called with no account returns before it touches anything
AbsentAccount(op, modelId, arg) ==
    /\ call' = Called(op, Absent, modelId, arg, AbsentReturn(op))
    /\ UNCHANGED <<healthVars, eventVars, clockVars, dashboard, results>>

\* getAccountHealth(account): the health object itself, {} when there is none
GetAccountHealth(a) ==
    /\ call' = Called("getAccountHealth", a, Null, Null, Some(health[a]))
    /\ UNCHANGED <<healthVars, eventVars, clockVars, dashboard, results>>

\* getModelHealth(account, modelId): a copy of the record, null when untracked
GetModelHealth(a, m) ==
    /\ call' = Called("getModelHealth", a, Some(m), Null,
                       IF HasHealth(a, m) THEN Some(health[a][m]) ELSE Null)
    /\ UNCHANGED <<healthVars, eventVars, clockVars, dashboard, results>>

DoAbsentAccount(M) ==
    \/ \E m \in M, success \in BOOLEAN : AbsentAccount("recordResult", Some(m), success)
    \/ \E m \in M, enabled \in BOOLEAN : AbsentAccount("toggleModel", Some(m), enabled)
    \/ \E modelId \in {Null} \cup {Some(m) : m \in M} : AbsentAccount("resetHealth", modelId, Null)
    \/ \E m \in M : AbsentAccount("isModelUsable", Some(m), Null)
    \/ \E m \in M : AbsentAccount("getModelHealth", Some(m), Null)
    \/ AbsentAccount("getAccountHealth", Null, Null)
DoGetAccountHealth == \E a \in Accounts : GetAccountHealth(a)
DoGetModelHealth(M) == \E a \in Accounts, m \in M : GetModelHealth(a, m)

NextAbsent ==
    \/ DoRecordResult({"m1"}, Errors, {0}, MaxResults)
    \/ DoIsModelUsable({"m1"}, {0})
    \/ DoToggleModel({"m1"})
    \/ DoResetHealth({"m1"})
    \/ DoAbsentAccount({"m1"})
    \/ DoGetAccountHealth
    \/ DoGetModelHealth({"m1"})

SpecAbsent == InitHealth /\ [][NextAbsent]_vars

----------------------------------------------------------------------------
(* Health configuration store *)

\* The values a caller puts in a patch, each with its typeof
JSNumber(n) == [t |-> "number", v |-> n]
JSString(str) == [t |-> "string", s |-> str]
JSBoolean(b) == [t |-> "boolean", b |-> b]
JSNull == [t |-> "null"]

\* The value itself
Raw(x) ==
    CASE x.t = "number" -> x.v
      [] x.t = "string" -> x.s
      [] x.t = "boolean" -> x.b
      [] x.t = "null" -> Null

\* NaN, a number that no comparison holds of; it stands outside the numbers
\* that patches and configs hold otherwise
NaN == 0 - 1000000000

\* a < b, a > b, a <= b on numbers
Less(a, b) == a # NaN /\ b # NaN /\ a < b
LessEq(a, b) == a # NaN /\ b # NaN /\ a <= b

\* Number.isInteger(x); the numbers drawn are integers or NaN
IsInteger(x) == x.t = "number" /\ x.v # NaN

\* ToNumber(x) as the relational operators apply it
ToNumber(x) ==
    CASE x.t = "number" -> x.v
      [] x.t = "boolean" -> IF x.b THEN 1 ELSE 0
      [] x.t = "string" -> IF x.s = "3" THEN 3 ELSE NaN
      [] x.t = "null" -> 0

\* The 0..100 check of warningThreshold and of criticalThreshold
PercentError(config, k, msg) ==
    IF k \in DOMAIN config
       /\ (config[k].t # "number" \/ Less(config[k].v, 0) \/ Less(100, config[k].v))
    THEN <<msg>> ELSE <<>>

\* config.k ?? healthConfig.k
Coalesce(config, k) ==
    IF k \in DOMAIN config /\ config[k].t # "null" THEN config[k] ELSE JSNumber(healthConfig[k])

\* An integer field with a lower and (when hi >= lo) an upper limit
IntegerError(config, k, lo, hi, msg) ==
    IF k \in DOMAIN config
       /\ (~IsInteger(config[k]) \/ config[k].v < lo \/ (hi >= lo /\ config[k].v > hi))
    THEN <<msg>> ELSE <<>>

\* validateHealthConfig(config).errors, in the order pushed, each message as
\* the sequence of its parts; nothing checks a key it does not name
validateHealthConfig(config) ==
    IntegerError(config, "consecutiveFailureThreshold", 1, 0,
                 <<"consecutiveFailureThreshold", " must be a positive integer (>= 1)">>)
    \o PercentError(config, "warningThreshold",
                    <<"warningThreshold", " must be a number between 0 and 100">>)
    \o PercentError(config, "criticalThreshold",
                    <<"criticalThreshold", " must be a number between 0 and 100">>)
    \o (IF Less(ToNumber(Coalesce(config, "warningThreshold")),
                ToNumber(Coalesce(config, "criticalThreshold")))
        THEN <<<<"warningThreshold", " must be greater than or equal to ", "criticalThreshold">>>>
        ELSE <<>>)
    \o (IF "autoRecoveryMs" \in DOMAIN config
           /\ (config.autoRecoveryMs.t # "number" \/ LessEq(config.autoRecoveryMs.v, 0))
        THEN <<<<"autoRecoveryMs", " must be a positive number">>>> ELSE <<>>)
    \o (IF "autoDisableEnabled" \in DOMAIN config /\ config.autoDisableEnabled.t # "boolean"
        THEN <<<<"autoDisableEnabled", " must be a boolean">>>> ELSE <<>>)
    \o IntegerError(config, "eventMaxCount", 1000, 50000,
                    <<"eventMaxCount", " must be an integer between 1000 and 50000">>)
    \o IntegerError(config, "eventRetentionDays", 1, 30,
                    <<"eventRetentionDays", " must be an integer between 1 and 30">>)

\* The values of a patch, as the spread stores them
Stored(newConfig) == [k \in DOMAIN newConfig |-> Raw(newConfig[k])]

\* setHealthConfig(newConfig): the config it leaves, what saveConfig wrote, and
\* what it returns
setHealthConfig(newConfig) ==
    LET errors == validateHealthConfig(newConfig)
        merged == Spread(healthConfig, Stored(newConfig))
    IN  IF errors # <<>>
        THEN [healthConfig |-> healthConfig, configFile |-> configFile,
              ret |-> [error |-> TRUE, errors |-> errors]]
        ELSE [healthConfig |-> merged, configFile |-> merged, ret |-> merged]

SetHealthConfig(newConfig) ==
    /\ LET r == setHealthConfig(newConfig)
       IN  /\ healthConfig' = r.healthConfig
           /\ configFile' = r.configFile
           /\ call' = Called("setHealthConfig", "", Null, newConfig, r.ret)
    /\ UNCHANGED <<health, eventVars, clockVars, dashboard, results>>

\* getHealthConfig(): a copy of the config
GetHealthConfig ==
    /\ call' = Called("getHealthConfig", "", Null, Null, healthConfig)
    /\ UNCHANGED <<healthVars, eventVars, clockVars, dashboard, results>>

\* The values callers send for each field; quotaThreshold in hundredths
FieldValues ==
    [consecutiveFailureThreshold |-> {JSNumber(0), JSString("3")},
     warningThreshold   |-> {JSNumber(20), JSNumber(60), JSNumber(101), JSNumber(NaN)},
     criticalThreshold  |-> {JSNumber(0 - 1), JSNumber(10), JSNumber(50)},
     autoRecoveryMs     |-> {JSNumber(0), JSNumber(3600000), JSNull},
     autoDisableEnabled |-> {JSBoolean(FALSE), JSString("false")},
     eventMaxCount      |-> {JSNumber(999), JSNumber(1000), JSNumber(50001)},
     eventRetentionDays |-> {JSNumber(0), JSNumber(31)},
     quotaThreshold     |-> {JSNumber(25), JSNumber(90)}]

\* Patches of one field, and of two of the fields listed in both
PairedFields == {"warningThreshold", "criticalThreshold", "eventMaxCount"}
Patches ==
    UNION {[{k} -> FieldValues[k]] : k \in DOMAIN FieldValues}
    \cup UNION {{[x \in {k, l} |-> IF x = k THEN v ELSE w] :
                    v \in FieldValues[k], w \in FieldValues[l]} :
                <<k, l>> \in {p \in PairedFields \X PairedFields : p[1] # p[2]}}

DoSetHealthConfig == \E newConfig \in Patches : SetHealthConfig(newConfig)

NextConfig ==
    \/ DoSetHealthConfig
    \/ GetHealthConfig

SpecConfig == InitStreak /\ [][NextConfig]_vars

----------------------------------------------------------------------------
(* Snapshot of the event log: save, load, prune, clear and the 60 s interval *)

\* What is left of a file that writeFileSync truncated and could not finish
Truncated == [partial |-> "["]

\* A file that fs.readFileSync cannot read
Unreadable == [eacces |-> "EACCES"]

\* readFileSync throws on such a file, and JSON.parse throws a SyntaxError on
\* a text that is not JSON
ParseThrows(text) == "json" \notin DOMAIN text

\* The JSON value {}
EmptyObject == [object |-> <<>>]

\* The JSON value null
JSONnull == [null |-> "null"]

\* JSON.parse(text): the value the text denotes, whatever its white space
JSONparse(text) == text.json

\* Whether JSON.stringify(events) throws
SnapshotThrows(log) == \E i \in 1..Len(log) : StringifyThrows(log[i])

\* How fs.writeFileSync ends: it returns, it throws before it touched the
\* file, or it throws after it truncated the file
WriteOutcomes == {"ok", "EACCES", "ENOSPC"}

SaveFailed(err) == Some(<<"[EventManager] Failed to save events:", err>>)

\* A save that takes a failed write for a written one
saveForgetsFailure(log, dirty, disk, write) ==
    IF ~dirty THEN [isDirty |-> FALSE, file |-> disk, logged |-> Null]
    ELSE IF SnapshotThrows(log) \/ write = "EACCES"
         THEN [isDirty |-> FALSE, file |-> disk, logged |-> Null]
    ELSE IF write = "ENOSPC"
         THEN [isDirty |-> FALSE, file |-> Some(Truncated), logged |-> Null]
    ELSE [isDirty |-> FALSE, file |-> Some(JSONstringifyIndented(Array(log))), logged |-> Null]

\* save() of the log while the flag is dirty and the file holds disk: the flag
\* and the file it leaves, and the error it logs
save(log, dirty, disk, write) ==
    IF ~dirty THEN [isDirty |-> FALSE, file |-> disk, logged |-> Null]
    ELSE IF SnapshotThrows(log)
         THEN [isDirty |-> TRUE, file |-> disk, logged |-> SaveFailed("TypeError")]
    ELSE IF write = "EACCES"
         THEN [isDirty |-> TRUE, file |-> disk, logged |-> SaveFailed(write)]
    ELSE IF write = "ENOSPC"
         THEN [isDirty |-> TRUE, file |-> Some(Truncated), logged |-> SaveFailed(write)]
    ELSE [isDirty |-> FALSE, file |-> Some(JSONstringifyIndented(Array(log))), logged |-> Null]

\* A load that keeps the log it finds in memory
loadKeepsMemory(disk, log) == log

\* load() while the file holds disk and the log is log: the log it leaves
load(disk, log) ==
    IF disk = Null THEN log
    ELSE IF ParseThrows(Val(disk)) THEN <<>>
    ELSE LET parsed == JSONparse(Val(disk))
         IN  IF "array" \in DOMAIN parsed THEN parsed.array
             ELSE IF parsed = JSONnull THEN <<>>    \* events.length throws
             ELSE NonArray(parsed)

FallbackMaxEvents == 10000
FallbackRetentionDays == 7

\* a || b for an optional number: undefined and 0 are falsy
NumberOr(obj, key, default) ==
    IF key \in DOMAIN obj /\ obj[key] # 0 THEN obj[key] ELSE default

\* getRetentionLimits() while config.health is section
getRetentionLimits(section) ==
    [maxEvents |-> NumberOr(section, "eventMaxCount", FallbackMaxEvents),
     maxAgeMs  |-> NumberOr(section, "eventRetentionDays", FallbackRetentionDays) * MsPerDay]

\* A prune that keeps the oldest events when over the limit
pruneKeepsOldest(log, dirty, t, section) ==
    LET limits == getRetentionLimits(section)
        cutoff == t - limits.maxAgeMs
        young == SelectSeq(log, LAMBDA e : getTime(e.timestamp) > cutoff)
        kept == IF Len(young) > limits.maxEvents
                THEN SubSeq(young, 1, limits.maxEvents)
                ELSE young
    IN  [events |-> kept, isDirty |-> dirty \/ Len(kept) # Len(log)]

\* prune() at time t: the log and the flag it leaves
prune(log, dirty, t, section) ==
    LET limits == getRetentionLimits(section)
        cutoff == t - limits.maxAgeMs
        young == SelectSeq(log, LAMBDA e : getTime(e.timestamp) > cutoff)
        kept == IF Len(young) > limits.maxEvents
                THEN Slice(young, 0 - limits.maxEvents)
                ELSE young
    IN  [events |-> kept, isDirty |-> dirty \/ Len(kept) # Len(log)]

\* The handler of SIGINT and of SIGTERM: save()
Save(write) ==
    /\ LET saved == save(events, isDirty, file, write)
       IN  /\ isDirty' = saved.isDirty
           /\ file' = saved.file
           /\ call' = Called("save", "", Null, write, saved.logged)
    /\ UNCHANGED <<healthVars, events, recorded, sseClients, res, clockVars, dashboard, results>>

\* The callback of the 60 s interval: save(), then prune()
Interval(write) ==
    /\ LET saved == save(events, isDirty, file, write)
           pruned == prune(events, saved.isDirty, now, configFile)
       IN  /\ events' = pruned.events
           /\ isDirty' = pruned.isDirty
           /\ file' = saved.file
           /\ call' = Called("interval", "", Null, write, saved.logged)
    /\ UNCHANGED <<healthVars, recorded, sseClients, res, clockVars, dashboard, results>>

\* A clear that leaves the snapshot to the next tick
clearLeavesSnapshot(log, disk, write) ==
    [events |-> <<>>, isDirty |-> TRUE, file |-> disk, ret |-> Len(log)]

\* clear() of the log while the file holds disk: the module state it leaves
\* and the count it returns
clear(log, disk, write) ==
    LET saved == save(<<>>, TRUE, disk, write)
    IN  [events |-> <<>>, isDirty |-> saved.isDirty, file |-> saved.file, ret |-> Len(log)]

Clear(write) ==
    /\ LET cleared == clear(events, file, write)
       IN  /\ events' = cleared.events
           /\ isDirty' = cleared.isDirty
           /\ file' = cleared.file
           /\ call' = Called("clear", "", Null, write, cleared.ret)
    /\ UNCHANGED <<healthVars, recorded, sseClients, res, clockVars, dashboard, results>>

\* The process ends and a new one starts: the module state is built anew and
\* initialize() loads the snapshot.  The accounts and the configuration are
\* kept by their own stores.
Restart ==
    /\ events' = load(file, <<>>)
    /\ isDirty' = FALSE
    /\ sseClients' = <<>>
    /\ res' = [c \in Clients |-> NewRes]
    /\ call' = Called("initialize", "", Null, Null, Null)
    /\ UNCHANGED <<healthVars, file, recorded, clockVars, dashboard, results>>

\* A write is tried only while the log is dirty
DoSave == \E write \in IF isDirty THEN WriteOutcomes ELSE {"ok"} : Save(write)
DoInterval == \E write \in IF isDirty THEN WriteOutcomes ELSE {"ok"} : Interval(write)
DoClear == \E write \in WriteOutcomes : Clear(write)

\* Snapshots: the log starts empty or loaded from a snapshot, a second or a
\* retention period after its events were recorded; callers also record
\* unserialisable details
InitSnapshot ==
    \E n \in {0, MaxPreload} :
        \E t \in {n, FallbackRetentionDays * MsPerDay} :
            Loaded(<<>>, PreloadedLog(n)) /\ now = t

NextSnapshot ==
    \/ DoRecord(EventInputs \cup {CyclicInput})
    \/ DoSave
    \/ DoInterval
    \/ DoClear
    \/ Restart

SpecSnapshot == InitSnapshot /\ [][NextSnapshot]_vars

\* Pruning: config.health is absent or asks for a short log, kept for a day;
\* the log starts empty or loaded from a snapshot; callers record, the
\* interval fires and days pass
ShortRetention == [eventMaxCount |-> ShortMaxCount, eventRetentionDays |-> 1]

InitPrune ==
    \E n \in {0, MaxPreload} :
        \E override \in {<<>>, ShortRetention} :
            Loaded(override, PreloadedLog(n)) /\ now = n

NextPrune ==
    \/ DoRecord(EventInputs)
    \/ DoInterval
    \/ DoTick

SpecPrune == InitPrune /\ [][NextPrune]_vars

\* Clearing: one subscriber, the log empty or loaded at start-up
InitClear == \E n \in {0, MaxPreload} : Loaded(<<>>, PreloadedLog(n)) /\ now = n

NextClear ==
    \/ DoRegisterSSEClient({"r1"})
    \/ DoClose({"r1"})
    \/ DoRecord(EventInputs)
    \/ DoClear

SpecClear == InitClear /\ [][NextClear]_vars

----------------------------------------------------------------------------
(* Convenience recorders *)

\* if (details.x): the field is there (the fields callers set are truthy)
Has(details, x) == x \in DOMAIN details

\* Math.ceil(a / b) and Math.round(a / b) of non-negative integers
CeilDiv(a, b) == (a + b - 1) \div b
RoundDiv(a, b) == (2 * a + b) \div (2 * b)

MsPerMinute == 60000
MinutesPerHour == 60

ResetInfo(details) ==
    IF ~Has(details, "resetMs") THEN <<>>
    ELSE LET minutes == CeilDiv(details.resetMs, MsPerMinute)
         IN  IF minutes >= MinutesPerHour
             THEN <<", reset in ", RoundDiv(minutes, MinutesPerHour), "h">>
             ELSE <<", reset in ", minutes, "m">>
StatusCodeInfo(details) ==
    IF Has(details, "statusCode") THEN <<" (", details.statusCode, ")">> ELSE <<>>
ActionInfo(details) ==
    IF Has(details, "action") THEN <<" -> ", details.action>> ELSE <<>>

recordRateLimit(account, model, details) ==
    [type      |-> Some("rate_limit"),
     requestId |-> Null,
     account   |-> Some(account),
     model     |-> Some(model),
     severity  |-> Some("warn"),
     message   |-> Some(<<"Rate limit hit for ", account, " on ", model>>
                        \o StatusCodeInfo(details) \o ResetInfo(details) \o ActionInfo(details)),
     details   |-> Some(details)]

recordAuthFailure(account, model, details) ==
    [type      |-> Some("auth_failure"),
     requestId |-> Null,
     account   |-> Some(account),
     model     |-> Some(model),
     severity  |-> Some("error"),
     message   |-> Some(<<"Auth failure for ", account, " on ", model>> \o ActionInfo(details)),
     details   |-> Some(details)]

recordFallback(fromModel, toModel, reason, details) ==
    [type      |-> Some("fallback"),
     requestId |-> Null,
     account   |-> Null,
     model     |-> Some(fromModel),
     severity  |-> Some("warn"),
     message   |-> Some(<<"Fallback from ", fromModel, " to ", toModel, ": ", reason>>),
     details   |-> Some(Spread(details, [fromModel |-> fromModel, toModel |-> toModel,
                                         reason |-> reason]))]

recordAccountSwitch(fromAccount, toAccount, model, reason, details) ==
    [type      |-> Some("account_switch"),
     requestId |-> Null,
     account   |-> Some(toAccount),
     model     |-> Some(model),
     severity  |-> Some("info"),
     message   |-> Some(<<"Switched from ", fromAccount, " to ", toAccount, " on ", model,
                          ": ", reason>>),
     details   |-> Some(Spread(details, [fromAccount |-> fromAccount, toAccount |-> toAccount,
                                         reason |-> reason]))]

\* A recordRequest that reports every request at severity info
recordRequestAlwaysInfo(requestId, account, model, success, latencyMs, details) ==
    [type      |-> Some("request"),
     requestId |-> Some(requestId),
     account   |-> Some(account),
     model     |-> Some(model),
     severity  |-> Some("info"),
     message   |-> Some(<<"Request ", requestId,
                          IF success THEN " completed in " ELSE " failed after ",
                          latencyMs, "ms">>),
     details   |-> Some(Spread(details, [success |-> success, latencyMs |-> latencyMs]))]

recordRequest(requestId, account, model, success, latencyMs, details) ==
    [type      |-> Some("request"),
     requestId |-> Some(requestId),
     account   |-> Some(account),
     model     |-> Some(model),
     severity  |-> Some(IF success THEN "info" ELSE "warn"),
     message   |-> Some(<<"Request ", requestId,
                          IF success THEN " completed in " ELSE " failed after ",
                          latencyMs, "ms">>),
     details   |-> Some(Spread(details, [success |-> success, latencyMs |-> latencyMs]))]

\* errorLabels[errorType] || errorType
ErrorLabel(errorType) ==
    CASE errorType = "server_error" -> "5xx"
      [] errorType = "network_error" -> "Network"
      [] errorType = "unknown_error" -> "Unknown"
      [] OTHER -> errorType

recordApiError(account, model, errorType, details) ==
    [type      |-> Some("api_error"),
     requestId |-> Null,
     account   |-> Some(account),
     model     |-> Some(model),
     severity  |-> Some("error"),
     message   |-> Some(<<ErrorLabel(errorType), " error for ", account, " on ", model>>
                        \o StatusCodeInfo(details) \o ActionInfo(details)),
     details   |-> Some(Spread(details, [errorType |-> errorType]))]

\* A call of a recorder with args, which hands eventData to record()
Recorder(op, args, eventData, env) ==
    /\ Emit(<<eventData>>, env)
    /\ call' = Called(op, "", Null, args,
                       IF record(eventData, now, env.rnd, env.fails).threw
                       THEN TypeError
                       ELSE record(eventData, now, env.rnd, env.fails).event)
    /\ UNCHANGED <<healthVars, clockVars, dashboard, results>>

\* The details callers pass: none, or what a 429 response tells
DetailsInputs ==
    {<<>>,
     [statusCode |-> 429, resetMs |-> 90000, action |-> "switch_account"],
     [resetMs |-> 3600001]}

DoRecordRateLimit ==
    \E a \in Accounts, m \in Models, details \in DetailsInputs, env \in Env({0}) :
        Recorder("recordRateLimit", [account |-> a, model |-> m, details |-> details],
                 recordRateLimit(a, m, details), env)
DoRecordAuthFailure ==
    \E a \in Accounts, m \in Models, details \in DetailsInputs, env \in Env({0}) :
        Recorder("recordAuthFailure", [account |-> a, model |-> m, details |-> details],
                 recordAuthFailure(a, m, details), env)
DoRecordFallback ==
    \E details \in DetailsInputs, env \in Env({0}) :
        Recorder("recordFallback", [fromModel |-> "m1", toModel |-> "m2", details |-> details],
                 recordFallback("m1", "m2", "rate_limit", details), env)
DoRecordAccountSwitch ==
    \E m \in Models, details \in DetailsInputs, env \in Env({0}) :
        Recorder("recordAccountSwitch", [toAccount |-> "a@x", model |-> m, details |-> details],
                 recordAccountSwitch("b@x", "a@x", m, "rate_limit", details), env)
DoRecordHealthChange ==
    \E a \in Accounts, m \in Models, change \in {"disabled", "recovered"}, env \in Env({0}) :
        Recorder("recordHealthChange", [account |-> a, model |-> m, change |-> change],
                 recordHealthChange(a, m, change, <<>>), env)
DoRecordRequest(M) ==
    \E a \in Accounts, m \in M, success \in BOOLEAN, env \in Env({0}) :
        Recorder("recordRequest", [account |-> a, model |-> m, success |-> success],
                 recordRequest("req-1", a, m, success, 12, <<>>), env)
DoRecordApiError ==
    \E a \in Accounts, m \in Models, env \in Env({0}) :
        \E errorType \in {"server_error", "timeout"}, details \in DetailsInputs :
            Recorder("recordApiError", [account |-> a, model |-> m, errorType |-> errorType],
                     recordApiError(a, m, errorType, details), env)

\* Recorders: every convenience recorder is called
NextRecorders ==
    \/ DoRecordRateLimit
    \/ DoRecordAuthFailure
    \/ DoRecordFallback
    \/ DoRecordAccountSwitch
    \/ DoRecordHealthChange
    \/ DoRecordRequest(Models)
    \/ DoRecordApiError

SpecRecorders == InitStream /\ [][NextRecorders]_vars

----------------------------------------------------------------------------
(* Queries of the event log: getEvents *)

\* if (filters.x) for an optional string and for an optional number
GivenString(o) == ~IsNull(o) /\ o # Some("")
GivenNumber(o) == ~IsNull(o) /\ o # Some(0)

\* a || b for an optional number
NumberOrElse(o, default) == IF GivenNumber(o) THEN Val(o) ELSE default

\* The chain of filter() calls of getEvents
Passes(e, filters) ==
    /\ GivenString(filters.type) => e.type = Val(filters.type)
    /\ GivenString(filters.account) => e.account = filters.account
    /\ GivenString(filters.model) => e.model = filters.model
    /\ GivenString(filters.severity) => e.severity = Val(filters.severity)
    /\ GivenString(filters.requestId) => e.requestId = filters.requestId
    /\ GivenNumber(filters.since) => getTime(e.timestamp) > Val(filters.since)

\* arr.sort((a, b) => new Date(b.timestamp) - new Date(a.timestamp)): a
\* stable sort, so events of one timestamp keep their order
RECURSIVE SortNewestFirst(_)
SortNewestFirst(arr) ==
    IF arr = <<>> THEN <<>>
    ELSE LET sorted == SortNewestFirst(SubSeq(arr, 1, Len(arr) - 1))
             e == arr[Len(arr)]
             k == Cardinality({i \in 1..Len(sorted) :
                                 getTime(sorted[i].timestamp) >= getTime(e.timestamp)})
         IN  SubSeq(sorted, 1, k) \o <<e>> \o SubSeq(sorted, k + 1, Len(sorted))

\* Array.prototype.slice(begin, end): negative indices count from the end
SliceRange(arr, begin, end) ==
    LET n == Len(arr)
        from == IF begin < 0 THEN Max(n + begin, 0) ELSE Min(begin, n)
        to == IF end < 0 THEN Max(n + end, 0) ELSE Min(end, n)
    IN  SubSeq(arr, from + 1, to)

PageLimitDefault == 100

\* getEvents(filters)
getEvents(filters) ==
    LET filtered == SelectSeq(events, LAMBDA e : Passes(e, filters))
        offset == NumberOrElse(filters.offset, 0)
        limit == NumberOrElse(filters.limit, PageLimitDefault)
    IN  [events |-> SliceRange(SortNewestFirst(filtered), offset, offset + limit),
         total  |-> Len(filtered)]

GetEvents(filters) ==
    /\ call' = Called("getEvents", "", Null, filters, getEvents(filters))
    /\ UNCHANGED <<healthVars, eventVars, clockVars, dashboard, results>>

\* The filters callers may ask with: each either absent or one value
AllFilters ==
    [type      : {Null, Some("request")},
     account   : {Null, Some("a@x")},
     model     : {Null, Some("m2")},
     severity  : {Null, Some("info")},
     requestId : {Null, Some("req-1")},
     since     : {Null, Some(1)},
     offset    : {Null, Some(1)},
     limit     : {Null} \cup {Some(k) : k \in 0..MaxLimit}]

\* The filters callers ask with: none, one, or all six, with or without
\* offset and limit
FilterFields == {"type", "account", "model", "severity", "requestId", "since"}
Filters ==
    {filters \in AllFilters :
        Cardinality({k \in FilterFields : filters[k] # Null}) \in {0, 1, Cardinality(FilterFields)}}

DoGetEvents == \E filters \in Filters : GetEvents(filters)

\* Queries: the log empty or loaded at start-up; callers record and the log
\* is read
InitQuery == \E n \in {0, MaxPreload} : Loaded(<<>>, PreloadedLog(n)) /\ now = n

NextQuery ==
    \/ DoRecord(EventInputs)
    \/ DoGetEvents

SpecQuery == InitQuery /\ [][NextQuery]_vars

----------------------------------------------------------------------------
(* Queries of the event log: getStats *)

EventTypes == {"request", "rate_limit", "auth_failure", "api_error", "fallback",
               "account_switch", "health_change", "system"}
Severities == {"info", "warn", "error"}

\* How many events of a log satisfy a test
Count(log, Test(_)) == Cardinality({i \in 1..Len(log) : Test(log[i])})

\* e.details?.success: undefined where the details have no such field
SuccessOf(e) == IF "success" \in DOMAIN e.details THEN Some(e.details.success) ELSE Null

\* A rate that drops the digits after the first decimal
SuccessRateTruncated(successCount, n) ==
    IF n > 0 THEN Num((successCount * 1000) \div n, 10) ELSE Num(100, 1)

\* Math.round((successCount / n) * 1000) / 10, or 100 without requests
SuccessRate(successCount, n) ==
    IF n > 0 THEN Num(RoundDiv(successCount * 1000, n), 10) ELSE Num(100, 1)

\* getStats(options) at time t
getStats(options, t) ==
    LET since == IF GivenNumber(options.since) THEN Val(options.since) ELSE t - MsPerDay
        inWindow == SelectSeq(events, LAMBDA e : getTime(e.timestamp) > since)
        ofAccount == IF GivenString(options.account)
                     THEN SelectSeq(inWindow, LAMBDA e : e.account = options.account)
                     ELSE inWindow
        filtered == IF GivenString(options.model)
                    THEN SelectSeq(ofAccount, LAMBDA e : e.model = options.model)
                    ELSE ofAccount
        requestEvents == SelectSeq(filtered, LAMBDA e : e.type = "request")
        successCount == Count(requestEvents, LAMBDA e : SuccessOf(e) = Some(TRUE))
        failCount == Count(requestEvents, LAMBDA e : SuccessOf(e) = Some(FALSE))
    IN  [total      |-> Len(filtered),
         byType     |-> [type \in EventTypes \cup {filtered[i].type : i \in DOMAIN filtered} |->
                            Count(filtered, LAMBDA e : e.type = type)],
         bySeverity |-> [severity \in Severities
                                        \cup {filtered[i].severity : i \in DOMAIN filtered} |->
                            Count(filtered, LAMBDA e : e.severity = severity)],
         byAccount  |-> [account \in {Val(filtered[i].account) :
                                        i \in {j \in DOMAIN filtered : filtered[j].account # Null}} |->
                            Count(filtered, LAMBDA e : e.account = Some(account))],
         byModel    |-> [model \in {Val(filtered[i].model) :
                                      i \in {j \in DOMAIN filtered : filtered[j].model # Null}} |->
                            Count(filtered, LAMBDA e : e.model = Some(model))],
         requests   |-> [total       |-> Len(requestEvents),
                         success     |-> successCount,
                         failed      |-> failCount,
                         successRate |-> SuccessRate(successCount, Len(requestEvents))],
         timeRange  |-> [since |-> toISOString(since), until |-> toISOString(t)]]

GetStats(options) ==
    /\ call' = Called("getStats", "", Null, options, getStats(options, now))
    /\ UNCHANGED <<healthVars, eventVars, clockVars, dashboard, results>>

\* The options callers ask with: at most one of them given
StatsOptions ==
    {options \in [since   : {Null, Some(0), Some(1)},
                  account : {Null, Some("a@x")},
                  model   : {Null, Some("m2")}] :
        Cardinality({k \in DOMAIN options : options[k] # Null}) <= 1}

DoGetStats == \E options \in StatsOptions : GetStats(options)

\* A snapshot of requests left by an earlier run, one per millisecond
RequestLog(outcomes) ==
    [i \in DOMAIN outcomes |->
        NewEvent(recordRequest("req-1", "a@x", "m1", outcomes[i], 12, <<>>), i - 1, 0)]

\* A request event recorded through record() itself, with no outcome
BareRequest ==
    [type |-> Some("request"), requestId |-> Some("req-2"), account |-> Some("a@x"),
     model |-> Some("m2"), severity |-> Null, message |-> Some(<<"Request ", "req-2">>),
     details |-> Null]

\* Statistics: the log empty or holding the requests of an earlier run;
\* requests complete, the clock runs and the statistics are read
InitStats ==
    \E n \in {0, MaxPreload} :
        \E outcomes \in [1..n -> BOOLEAN] :
            Loaded(<<>>, RequestLog(outcomes)) /\ now = n

NextStats ==
    \/ DoRecordRequest({"m1"})
    \/ DoRecord({BareRequest})
    \/ Tick(MsPerDay)
    \/ DoGetStats

SpecStats == InitStats /\ [][NextStats]_vars

\* The module state before initialize(), with config.health = override and
\* EVENTS_FILE as an earlier run or anything else left it
Constructed(override, disk) ==
    /\ health = [a \in Accounts |-> <<>>]
    /\ healthConfig = LoadedConfig(override)
    /\ configFile = override
    /\ events = <<>>
    /\ isDirty = FALSE
    /\ file = disk
    /\ recorded = 0
    /\ sseClients = <<>>
    /\ res = [c \in Clients |-> NewRes]
    /\ ticks = 0
    /\ results = 0
    /\ dashboard = OpenedPage(healthConfig)
    /\ call = Called("init", "", Null, Null, Null)

\* The files initialize() may find: none, an unreadable one, a truncated one,
\* and the texts of [], of a log, of {} and of null
SnapshotFiles ==
    {Null, Some(Unreadable), Some(Truncated)}
        \cup {Some(JSONstringifyIndented(v)) :
                v \in {Array(<<>>), Array(PreloadedLog(MaxPreload)), EmptyObject, JSONnull}}

InitLoad == \E disk \in SnapshotFiles : Constructed(<<>>, disk) /\ now = MaxPreload

\* Loading: initialize(), then callers record, the clock runs and the
\* process is signalled
NextLoad ==
    \/ Restart
    \/ DoRecord(EventInputs)
    \/ DoSave
    \/ DoTick

SpecLoad == InitLoad /\ [][NextLoad]_vars

----------------------------------------------------------------------------
(* Properties of the health tracker *)

Pairs == Accounts \X Models

\* The positions in the log of the health_change events of a pair reporting change
HealthChanges(a, m, change) ==
    {i \in 1..Len(events) :
        /\ events[i].type = "health_change"
        /\ events[i].account = Some(a)
        /\ events[i].model = Some(m)
        /\ events[i].details.change = change}

\* The last call was op on the pair (a, m)
LastCall(op, a, m) == call.op = op /\ call.account = a /\ call.model = Some(m)

\* e is the health_change event of (a, m) reporting a recovery by trigger
IsRecovered(e, a, m, trigger) ==
    /\ e.type = "health_change"
    /\ e.severity = "info"
    /\ e.account = Some(a)
    /\ e.model = Some(m)
    /\ e.details.change = "recovered"
    /\ e.details.trigger = trigger

\* C1: under the default configuration, a record that has seen nothing but k
\* failures in a row since it was created is disabled exactly when k has
\* reached consecutiveFailureThreshold; from then on isModelUsable returns
\* false and the log holds exactly one 'disabled' event of the pair, of
\* severity error, however many more failures follow.
C1_AutoDisableOnStreak ==
    \A p \in Pairs :
        LET a == p[1]
            m == p[2]
        IN  (HasHealth(a, m) /\ health[a][m].successCount = 0) =>
                LET h == health[a][m]
                    disabledEvents == HealthChanges(a, m, "disabled")
                IN  IF h.failCount >= DefaultThreshold
                    THEN /\ h.disabled
                         /\ ~isModelUsable(h, a, m, now).ret
                         /\ (LastCall("isModelUsable", a, m) => call.ret = FALSE)
                         /\ Cardinality(disabledEvents) = 1
                         /\ \A i \in disabledEvents : events[i].severity = "error"
                    ELSE /\ ~h.disabled
                         /\ disabledEvents = {}

C1_Witness ==
    \E p \in Pairs :
        /\ HasHealth(p[1], p[2])
        /\ health[p[1]][p[2]].successCount = 0
        /\ health[p[1]][p[2]].failCount = DefaultThreshold + 1
        /\ health[p[1]][p[2]].disabled
        /\ LastCall("isModelUsable", p[1], p[2])
        /\ call.ret = FALSE
        /\ Cardinality(HealthChanges(p[1], p[2], "disabled")) = 1

\* C2: the stored healthScore of every record is the score formula applied to
\* the record's current counters, and so lies in [0, 100].
C2_ScoreIsFormula ==
    \A p \in Pairs :
        HasHealth(p[1], p[2]) =>
            LET h == health[p[1]][p[2]]
                total == h.successCount + h.failCount
                penalty == IF 6 * h.consecutiveFailures < 30 THEN 6 * h.consecutiveFailures ELSE 30
                raw == 100 * h.successCount - penalty * total   \* (base - penalty) * total
                score == h.healthScore
            IN  /\ score.d > 0 /\ 0 <= score.n /\ score.n <= 100 * score.d
                /\ IF total = 0 THEN score.n = 100 * score.d
                   ELSE IF raw <= 0 THEN score.n = 0
                   ELSE IF raw >= 100 * total THEN score.n = 100 * score.d
                   ELSE score.n * total = raw * score.d

\* C3: a record that is manualDisabled stays manualDisabled through every call
\* but toggleModel and resetHealth, whatever the outcome reported and however
\* much time has passed; isModelUsable returns false for it and no 'recovered'
\* event of the pair is recorded.  No other call changes manualDisabled.
C3_ManualDisableSticks ==
    [][\A p \in Pairs :
        LET a == p[1]
            m == p[2]
        IN  /\ (HasHealth(a, m) /\ health[a][m].manualDisabled
                    /\ call'.op \notin {"toggleModel", "resetHealth"}) =>
                /\ m \in DOMAIN health'[a]
                /\ health'[a][m].manualDisabled
                /\ (call'.op = "isModelUsable" /\ call'.account = a /\ call'.model = Some(m))
                      => call'.ret = FALSE
                /\ \A i \in (1..Len(events')) \ (1..Len(events)) :
                      ~(/\ events'[i].type = "health_change"
                        /\ events'[i].account = Some(a)
                        /\ events'[i].model = Some(m)
                        /\ events'[i].details.change = "recovered")
            /\ (HasHealth(a, m) /\ ~health[a][m].manualDisabled
                    /\ call'.op \notin {"toggleModel", "resetHealth"}) =>
                /\ m \in DOMAIN health'[a]
                /\ ~health'[a][m].manualDisabled
    ]_vars

\* an auto-disabled record was then disabled by hand; a recovery period later
\* isModelUsable still returns false
C3_Witness ==
    \E p \in Pairs :
        /\ HasHealth(p[1], p[2])
        /\ health[p[1]][p[2]].manualDisabled
        /\ health[p[1]][p[2]].disabled
        /\ health[p[1]][p[2]].successCount > 0
        /\ now - getTime(Val(health[p[1]][p[2]].disabledAt)) > healthConfig.autoRecoveryMs
        /\ LastCall("isModelUsable", p[1], p[2])
        /\ call.ret = FALSE

\* C4: isModelUsable on a record with disabled and not manualDisabled: when
\* more than autoRecoveryMs have passed since disabledAt it returns true,
\* clears disabled and consecutiveFailures and records exactly one 'recovered'
\* event with trigger auto_recovery_timeout; otherwise it returns false and
\* changes neither the records nor the log.
C4_AutoRecoveryTimeout ==
    [][\A p \in Pairs :
        LET a == p[1]
            m == p[2]
        IN  (/\ call'.op = "isModelUsable" /\ call'.account = a /\ call'.model = Some(m)
             /\ HasHealth(a, m)
             /\ health[a][m].disabled
             /\ ~health[a][m].manualDisabled) =>
                IF now - getTime(Val(health[a][m].disabledAt)) > healthConfig.autoRecoveryMs
                THEN /\ call'.ret = TRUE
                     /\ ~health'[a][m].disabled
                     /\ health'[a][m].consecutiveFailures = 0
                     /\ Len(events') = Len(events) + 1
                     /\ SubSeq(events', 1, Len(events)) = events
                     /\ IsRecovered(events'[Len(events')], a, m, "auto_recovery_timeout")
                ELSE /\ call'.ret = FALSE
                     /\ health' = health
                     /\ events' = events
    ]_vars

C4_Witness ==
    \E p \in Pairs :
        /\ LastCall("isModelUsable", p[1], p[2])
        /\ call.ret = TRUE
        /\ events # <<>>
        /\ IsRecovered(events[Len(events)], p[1], p[2], "auto_recovery_timeout")
        /\ ~health[p[1]][p[2]].disabled

\* C5: recordResult(success) on a record with disabled and not manualDisabled
\* clears disabled, disabledReason and disabledAt and records exactly one
\* 'recovered' event with trigger successful_request; on a record that is not
\* disabled (or on a pair without a record) it records no event.
C5_RecoveryBySuccess ==
    [][\A p \in Pairs :
        LET a == p[1]
            m == p[2]
        IN  (call'.op = "recordResult" /\ call'.arg = TRUE
                /\ call'.account = a /\ call'.model = Some(m)) =>
                IF HasHealth(a, m) /\ health[a][m].disabled /\ ~health[a][m].manualDisabled
                THEN /\ ~health'[a][m].disabled
                     /\ IsNull(health'[a][m].disabledReason)
                     /\ IsNull(health'[a][m].disabledAt)
                     /\ Len(events') = Len(events) + 1
                     /\ SubSeq(events', 1, Len(events)) = events
                     /\ IsRecovered(events'[Len(events')], a, m, "successful_request")
                ELSE (~HasHealth(a, m) \/ ~health[a][m].disabled) => events' = events
    ]_vars

C5_Witness ==
    \E p \in Pairs :
        /\ LastCall("recordResult", p[1], p[2])
        /\ call.arg = TRUE
        /\ events # <<>>
        /\ IsRecovered(events[Len(events)], p[1], p[2], "successful_request")
        /\ ~health[p[1]][p[2]].disabled
        /\ IsNull(health[p[1]][p[2]].disabledAt)

\* C6: right after recordResult(account, model, success = true) the record's
\* consecutiveFailures is 0, whatever its flags.
C6_SuccessResetsStreak ==
    \A p \in Pairs :
        (LastCall("recordResult", p[1], p[2]) /\ call.arg = TRUE) =>
            /\ HasHealth(p[1], p[2])
            /\ health[p[1]][p[2]].consecutiveFailures = 0

\* a success on a manually disabled record that has failed before
C6_Witness ==
    \E p \in Pairs :
        /\ LastCall("recordResult", p[1], p[2])
        /\ call.arg = TRUE
        /\ health[p[1]][p[2]].manualDisabled
        /\ health[p[1]][p[2]].disabled
        /\ health[p[1]][p[2]].failCount >= ShortThreshold

\* C7: isModelUsable returns true exactly when, after the call, the pair has
\* no record or its record has neither disabled nor manualDisabled.
C7_UsableIffNoFlag ==
    \A p \in Pairs :
        LastCall("isModelUsable", p[1], p[2]) =>
            (call.ret <=> (\/ ~HasHealth(p[1], p[2])
                           \/ (/\ ~health[p[1]][p[2]].disabled
                               /\ ~health[p[1]][p[2]].manualDisabled)))

\* true for a record that has just been re-enabled by hand
C7_Witness ==
    \E p \in Pairs :
        /\ LastCall("isModelUsable", p[1], p[2])
        /\ call.ret = TRUE
        /\ HasHealth(p[1], p[2])
        /\ health[p[1]][p[2]].consecutiveFailures >= ShortThreshold

----------------------------------------------------------------------------
(* Properties of the event stream *)

\* The frame a subscriber gets for the i-th event of the log
EventFrame(i) == Frame(JSONstringify(events[i]))

\* The single-event frames written to c, in the order written
EventFrames(c) ==
    SelectSeq(res[c].frames, LAMBDA f : \E i \in 1..Len(events) : f = EventFrame(i))

\* The frames of the events recorded since c joined the live set
Due(c) == [i \in 1..(Len(events) - res[c].logLen) |-> EventFrame(res[c].logLen + i)]

Live(c) == c \in Range(sseClients)

\* C8: a subscriber that joined the live set and is still in it has received
\* every event recorded since as one single-event frame each, in the order of
\* the record calls; one that was removed has received a prefix of them.
C8_FanOutInOrder ==
    \A c \in Clients :
        res[c].onClose =>
            /\ Len(EventFrames(c)) <= Len(Due(c))
            /\ EventFrames(c) = SubSeq(Due(c), 1, Len(EventFrames(c)))
            /\ Live(c) => EventFrames(c) = Due(c)

\* Two different events reached a live subscriber after another one was dropped
C8_Witness ==
    \E c, d \in Clients :
        /\ Live(c) /\ Len(EventFrames(c)) >= 2
        /\ EventFrames(c)[1] # EventFrames(c)[2]
        /\ res[d].onClose /\ res[d].failed /\ Len(EventFrames(d)) = 1

\* The newest min(historyLimit, n) events of the n events c found in the log
C9_Newest(c) ==
    LET n == res[c].logLen
        o == Val(res[c].options)
        k == Min(IF IsNull(o.historyLimit) THEN HistoryLimitDefault ELSE Val(o.historyLimit), n)
    IN  SubSeq(events, n - k + 1, n)

\* C9: the frames of a subscriber are the connected frame, then (history
\* requested) exactly one batch frame with the newest min(historyLimit, n)
\* events, then one single-event frame per event recorded afterwards.
C9_ReplayThenLive ==
    \A c \in Clients :
        Live(c) =>
            /\ res[c].frames[1][2].json.type = "connected"
            /\ Tail(res[c].frames) =
                  (IF Val(res[c].options).history
                   THEN <<Frame(JSONstringify(Array(C9_Newest(c))))>>
                   ELSE <<>>) \o Due(c)

\* The subscriber whose write failed in the step, if the step is a record call
FailedNow(c) == res'[c].failed /\ ~res[c].failed

\* C10: a record call writes the event to every live subscriber whose write
\* does not fail and keeps it live, drops every subscriber whose write fails
\* without writing to it, and writes to nobody else; the live set never holds
\* a subscriber that failed a write or whose transport closed.
C10_FailureIsolated ==
    /\ [](\A c \in Clients : Live(c) => ~res[c].failed /\ res[c].status = "open")
    /\ [][Len(events') = Len(events) + 1 =>
            \A c \in Clients :
                IF Live(c) /\ ~FailedNow(c)
                THEN /\ res'[c].frames = Append(res[c].frames, Frame(JSONstringify(events'[Len(events')])))
                     /\ c \in Range(sseClients')
                ELSE /\ res'[c].frames = res[c].frames
                     /\ c \notin Range(sseClients')]_vars

\* One of two subscribers failed on the first event, the other received it
C10_Witness ==
    \E c, d \in Clients :
        /\ Len(events) = 1 /\ call.op = "record"
        /\ res[c].onClose /\ res[c].failed /\ ~Live(c) /\ EventFrames(c) = <<>>
        /\ Live(d) /\ Len(EventFrames(d)) = 1

----------------------------------------------------------------------------
(* Properties of error handling *)

\* C11: record never raises an error to its caller: whatever the event data
\* and whatever the subscribers do, the call returns the event it has stored.
C11_RecordNeverThrows ==
    call.op = "record" => call.ret # TypeError /\ call.ret = events[Len(events)]

\* C12 as claimed: with no account every tracker write returns null; writes
\* and reads return, and neither change state nor emit an event.
C12_AbsentWritesReturnNull ==
    [][\A op \in TrackerWrites \cup TrackerReads :
          call'.op = op /\ call'.account = Absent =>
              /\ <<healthVars, eventVars>>' = <<healthVars, eventVars>>
              /\ op \in TrackerWrites => call'.ret = Null]_vars

\* C12 as amended: with no account recordResult and toggleModel return null and
\* resetHealth returns false; isModelUsable returns true, getModelHealth null
\* and getAccountHealth {}; none changes a record, the config or the event
\* log, and none emits an event.
C12_AbsentAccountIsNoOp ==
    [][\A op \in TrackerWrites \cup TrackerReads :
          call'.op = op /\ call'.account = Absent =>
              /\ <<healthVars, eventVars>>' = <<healthVars, eventVars>>
              /\ call'.ret = CASE op \in {"recordResult", "toggleModel", "getModelHealth"} -> Null
                               [] op = "resetHealth" -> Some(FALSE)
                               [] op = "isModelUsable" -> Some(TRUE)
                               [] op = "getAccountHealth" -> Some(<<>>)]_vars

\* resetHealth was called with no account while a record is disabled
C12_Witness ==
    /\ call.op = "resetHealth" /\ call.account = Absent
    /\ \E p \in Pairs : HasHealth(p[1], p[2]) /\ health[p[1]][p[2]].disabled

----------------------------------------------------------------------------
(* Properties of the configuration store *)

\* The constraints on the fields of the health configuration, on a value of a
\* patch.  quotaThreshold is in hundredths.
Finite(x) == x.t = "number" /\ x.v # NaN
FieldValid(k, x) ==
    CASE k = "consecutiveFailureThreshold" -> Finite(x) /\ x.v >= 1
      [] k \in {"warningThreshold", "criticalThreshold"} -> Finite(x) /\ x.v >= 0 /\ x.v <= 100
      [] k = "autoRecoveryMs" -> Finite(x) /\ x.v > 0
      [] k = "autoDisableEnabled" -> x.t = "boolean"
      [] k = "eventMaxCount" -> Finite(x) /\ x.v >= 1000 /\ x.v <= 50000
      [] k = "eventRetentionDays" -> Finite(x) /\ x.v >= 1 /\ x.v <= 30
      [] k = "quotaThreshold" -> Finite(x) /\ x.v >= 0 /\ x.v <= 50

\* The field of the patch, or else of the current config
Patched(patch, k) == IF k \in DOMAIN patch THEN patch[k] ELSE JSNumber(healthConfig[k])

\* warningThreshold < criticalThreshold once the patch is applied
CrossInvalid(patch) ==
    /\ Finite(Patched(patch, "warningThreshold")) /\ Finite(Patched(patch, "criticalThreshold"))
    /\ Patched(patch, "warningThreshold").v < Patched(patch, "criticalThreshold").v

FailingFields(patch) ==
    {k \in DOMAIN patch : ~FieldValid(k, patch[k])}
        \cup (IF CrossInvalid(patch) THEN {"warningThreshold", "criticalThreshold"} ELSE {})

\* C13: an update whose patch violates a constraint is rejected with an error
\* result that names every failing field, and leaves the config, in memory
\* and as persisted, unchanged.
C13_InvalidPatchRejected ==
    [][(call'.op = "setHealthConfig" /\ FailingFields(call'.arg) # {}) =>
          /\ "error" \in DOMAIN call'.ret
          /\ \A k \in FailingFields(call'.arg) :
                \E i \in 1..Len(call'.ret.errors) : k \in Range(call'.ret.errors[i])
          /\ configVars' = configVars]_vars

\* C14: the stored config always satisfies the constraints of its fields.
C14_StoredConfigValid ==
    /\ healthConfig.consecutiveFailureThreshold >= 1
    /\ healthConfig.warningThreshold \in 0..100
    /\ healthConfig.criticalThreshold \in 0..100
    /\ healthConfig.warningThreshold >= healthConfig.criticalThreshold
    /\ healthConfig.autoRecoveryMs > 0
    /\ healthConfig.autoDisableEnabled \in BOOLEAN
    /\ healthConfig.eventMaxCount \in 1000..50000
    /\ healthConfig.eventRetentionDays \in 1..30

\* C15: the stored quotaThreshold, once set, is within 0.0..0.5.
C15_QuotaThresholdValidated ==
    "quotaThreshold" \in DOMAIN healthConfig =>
        healthConfig.quotaThreshold >= 0 /\ healthConfig.quotaThreshold <= 50

----------------------------------------------------------------------------
(* Properties of interleaved handlers *)

\* A counter of the pair in the health state hs; no record counts as 0
CountIn(hs, a, m, field) == IF m \in DOMAIN hs[a] THEN hs[a][m][field] ELSE 0

\* C16: whatever the order in which handlers report results, toggle, reset and
\* read, every recordResult call adds exactly one to successCount (success) or
\* failCount (failure) of its pair, resetHealth zeroes the counters of the
\* pairs it covers, and no other step changes a counter; so no update is lost
\* and successCount + failCount counts the calls since creation or reset.
C16_NoLostUpdate ==
    [][\A p \in Pairs :
          LET s0 == CountIn(health, p[1], p[2], "successCount")
              f0 == CountIn(health, p[1], p[2], "failCount")
              s1 == CountIn(health', p[1], p[2], "successCount")
              f1 == CountIn(health', p[1], p[2], "failCount")
          IN  IF call'.op = "recordResult" /\ call'.account = p[1] /\ call'.model = Some(p[2])
              THEN IF call'.arg THEN s1 = s0 + 1 /\ f1 = f0 ELSE s1 = s0 /\ f1 = f0 + 1
              ELSE IF /\ call'.op = "resetHealth" /\ call'.account = p[1]
                      /\ call'.model \in {Null, Some(p[2])}
              THEN s1 = 0 /\ f1 = 0
              ELSE s1 = s0 /\ f1 = f0]_vars

\* Results of both kinds were reported for one pair, interleaved with results
\* for another
C16_Witness ==
    \E p, q \in Pairs :
        /\ p # q
        /\ CountIn(health, p[1], p[2], "successCount") >= 1
        /\ CountIn(health, p[1], p[2], "failCount") >= 2
        /\ CountIn(health, q[1], q[2], "failCount") >= 1

----------------------------------------------------------------------------
(* Properties of event emission *)

\* C17: when a call dispatches a health_change event, the record it reports on
\* already has the flag the event announces: disabled = FALSE for 'recovered',
\* disabled = TRUE for 'disabled'.
C17_EmitAfterMutation ==
    ~IsNull(call.seen) =>
        LET e == events[Len(events)]
        IN  /\ e.type = "health_change"
            /\ e.details.change \in {"recovered", "disabled"}
            /\ Val(call.seen).disabled = (e.details.change = "disabled")

\* A success has recovered a record that an earlier failure auto-disabled, and
\* both calls dispatched their event
C17_Witness ==
    /\ call.op = "recordResult" /\ call.arg /\ ~IsNull(call.seen)
    /\ Len(events) = 2
    /\ events[1].details.change = "disabled"
    /\ events[2].details.change = "recovered"

----------------------------------------------------------------------------
(* Properties of event ids *)

\* The order of two ids as strings: `evt_<ms>_<8 hex digits>`, the ms of equal
\* length
IdLess(x, y) == x[2] < y[2] \/ (x[2] = y[2] /\ x[4] < y[4])

\* C18: the events recorded since start-up have pairwise different ids, and
\* the order of their ids is the order in which they were appended.
C18_IdsUniqueAndOrdered ==
    \A i, j \in 1..Len(events) : i < j => IdLess(events[i].id, events[j].id)

----------------------------------------------------------------------------
(* Properties of the snapshot *)

\* The text save() writes for a log
SnapshotOf(log) == Some(JSONstringifyIndented(Array(log)))

\* C19: the snapshot is written only while the log is dirty; a write that
\* succeeds clears dirty; a write that fails leaves dirty set and the log in
\* memory as it was, for the next tick to retry; and in every reachable state
\* where dirty is false, loading the file yields exactly the log in memory.
C19_SnapshotWhenDirty ==
    /\ [](~isDirty => load(file, <<>>) = events)
    /\ [][/\ file' # file =>
                /\ call'.op \in {"save", "interval", "clear"}
                /\ isDirty \/ call'.op = "clear"
          /\ call'.op = "save" /\ ~isDirty => file' = file /\ ~isDirty'
          /\ call'.op = "save" /\ isDirty /\ call'.ret = Null =>
                ~isDirty' /\ file' = SnapshotOf(events) /\ events' = events
          /\ call'.op = "save" /\ isDirty /\ call'.ret # Null =>
                isDirty' /\ events' = events
          /\ call'.op = "interval" /\ isDirty /\ call'.ret = Null =>
                file' = SnapshotOf(events) /\ (isDirty' <=> events' # events)
          /\ call'.op = "interval" /\ isDirty /\ call'.ret # Null => isDirty'
         ]_vars

\* A save wrote the log, with an event of this run in it, and clean memory
\* matches the file
C19_Witness ==
    /\ call.op = "save" /\ call.ret = Null
    /\ ~isDirty
    /\ recorded > 0 /\ events # <<>>
    /\ file = SnapshotOf(events)

----------------------------------------------------------------------------
(* Properties of loading *)

\* The file holds the text of an array
WellFormed(disk) ==
    /\ disk # Null
    /\ ~ParseThrows(Val(disk))
    /\ "array" \in DOMAIN JSONparse(Val(disk))

\* C21: loading a snapshot that is missing, unreadable or anything but a
\* well-formed array of events leaves the log an empty array, and every later
\* record call works as on a fresh empty log: it returns its event.
C21_BadSnapshotLoadsEmpty ==
    /\ call.op = "initialize" /\ ~WellFormed(file) => events = <<>>
    /\ call.op = "record" => call.ret # TypeError

----------------------------------------------------------------------------
(* Properties of pruning *)

\* The events of a log that are younger than the retention age at time t
Young(log, t, maxAgeMs) == SelectSeq(log, LAMBDA e : getTime(e.timestamp) > t - maxAgeMs)

\* C22: after a prune pass every remaining event is younger than the
\* retention age and at most eventMaxCount remain; the kept events are the
\* newest ones, in append order; prune marks the log dirty if it removed an
\* event and otherwise leaves the log and the dirty flag as they were.
C22_PruneKeepsNewest ==
    [][call'.op = "interval" =>
        LET limits == getRetentionLimits(configFile)
            young == Young(events, now, limits.maxAgeMs)
            before == save(events, isDirty, file, call'.arg).isDirty
        IN  /\ \A i \in 1..Len(events') :
                  getTime(events'[i].timestamp) > now - limits.maxAgeMs
            /\ Len(events') = Min(Len(young), limits.maxEvents)
            /\ events' = SubSeq(young, Len(young) - Len(events') + 1, Len(young))
            /\ Len(events') < Len(events) => isDirty'
            /\ Len(events') = Len(events) => events' = events /\ isDirty' = before
    ]_vars

\* A pass wrote a log longer than the configured count and then dropped its
\* oldest events, within the retention age
C22_Witness ==
    /\ call.op = "interval"
    /\ configFile = ShortRetention
    /\ now < MsPerDay
    /\ Len(events) = ShortMaxCount
    /\ Len(load(file, <<>>)) > ShortMaxCount
    /\ isDirty

\* The whole days an event has been in the log at time t
AgeDays(e, t) == (t - getTime(e.timestamp)) \div MsPerDay

\* C23: the limits a prune pass applies are the eventMaxCount and
\* eventRetentionDays that getHealthConfig() reports: an event younger than
\* the reported retention, in a log no longer than the reported count, stays.
C23_PruneUsesStoreLimits ==
    [][call'.op = "interval" =>
        /\ getRetentionLimits(configFile).maxEvents = healthConfig.eventMaxCount
        /\ \A i \in 1..Len(events) :
              /\ AgeDays(events[i], now) < healthConfig.eventRetentionDays
              /\ Len(events) <= healthConfig.eventMaxCount
              => events[i] \in Range(events')
    ]_vars

----------------------------------------------------------------------------
(* Properties of clear *)

\* C24: clear() empties the log, returns the number of events the log held,
\* and writes the snapshot at once: when the write succeeds the file holds the
\* empty array and dirty is false; the live subscribers are as they were.
C24_ClearEmptiesAndSaves ==
    [][call'.op = "clear" =>
        /\ events' = <<>>
        /\ call'.ret = Len(events)
        /\ sseClients' = sseClients
        /\ res' = res
        /\ call'.arg = "ok" => file' = SnapshotOf(<<>>) /\ ~isDirty'
    ]_vars

\* A log that held events was cleared and written while a subscriber was live
C24_Witness ==
    /\ call.op = "clear"
    /\ call.ret > 0
    /\ call.arg = "ok"
    /\ sseClients = <<"r1">>
    /\ events = <<>>
    /\ file = SnapshotOf(<<>>)
    /\ ~isDirty

----------------------------------------------------------------------------
(* Properties of queries *)

\* Whether a filter was given, and the events matching every given filter
Matching(log, filters) ==
    SelectSeq(log, LAMBDA e :
        /\ filters.type # Null => e.type = Val(filters.type)
        /\ filters.account # Null => e.account = filters.account
        /\ filters.model # Null => e.model = filters.model
        /\ filters.severity # Null => e.severity = Val(filters.severity)
        /\ filters.requestId # Null => e.requestId = filters.requestId
        /\ filters.since # Null => getTime(e.timestamp) > Val(filters.since))

\* The timestamps of a log, latest first
RECURSIVE TimesNewestFirst(_)
TimesNewestFirst(S) ==
    IF S = {} THEN <<>>
    ELSE LET latest == CHOOSE i \in S : \A j \in S : i[2] > j[2] \/ (i[2] = j[2] /\ i[1] <= j[1])
         IN  <<latest[2]>> \o TimesNewestFirst(S \ {latest})
Times(log) == [i \in 1..Len(log) |-> getTime(log[i].timestamp)]
Stamped(log) == {<<i, getTime(log[i].timestamp)>> : i \in 1..Len(log)}

\* How often an event occurs in a log
Occurrences(log, e) == Cardinality({i \in 1..Len(log) : log[i] = e})

\* C25: getEvents returns as total the number of events matching all given
\* filters, whatever offset and limit, and as events the positions
\* [offset, offset + limit) of the matches sorted newest first, with limit 100
\* and offset 0 when not given; it leaves the log alone.
C25_GetEventsPage ==
    [][call'.op = "getEvents" =>
        LET filters == call'.arg
            page == call'.ret.events
            matches == Matching(events, filters)
            offset == IF filters.offset = Null THEN 0 ELSE Val(filters.offset)
            limit == IF filters.limit = Null THEN PageLimitDefault ELSE Val(filters.limit)
            times == TimesNewestFirst(Stamped(matches))
        IN  /\ call'.ret.total = Len(matches)
            /\ Times(page) = SubSeq(times, offset + 1, Min(offset + limit, Len(matches)))
            /\ \A i \in 1..Len(page) :
                  Occurrences(page, page[i]) <= Occurrences(matches, page[i])
            /\ events' = events
    ]_vars

\* The request events of the window a getStats call reports, for the account
\* and the model it was asked for
WindowRequests(options, range) ==
    SelectSeq(events, LAMBDA e :
        /\ e.type = "request"
        /\ getTime(e.timestamp) > getTime(range.since)
        /\ options.account # Null => e.account = options.account
        /\ options.model # Null => e.model = options.model)

\* k / 10 is success / total * 100 rounded to one decimal, halves up
RoundedRate(k, success, total) ==
    /\ 2 * (1000 * success - k * total) <= total
    /\ 2 * (1000 * success - k * total) > 0 - total

----------------------------------------------------------------------------
(* Properties of the convenience recorders *)

\* The type and the severity the claim gives for a recorder called with args
FixedType(op, args) ==
    CASE op = "recordRateLimit" -> <<"rate_limit", "warn">>
      [] op = "recordAuthFailure" -> <<"auth_failure", "error">>
      [] op = "recordApiError" -> <<"api_error", "error">>
      [] op = "recordFallback" -> <<"fallback", "warn">>
      [] op = "recordAccountSwitch" -> <<"account_switch", "info">>
      [] op = "recordHealthChange" ->
            <<"health_change", IF args.change = "disabled" THEN "error" ELSE "info">>
      [] op = "recordRequest" -> <<"request", IF args.success THEN "info" ELSE "warn">>

Recorders == {"recordRateLimit", "recordAuthFailure", "recordApiError", "recordFallback",
              "recordAccountSwitch", "recordHealthChange", "recordRequest"}

\* C27: each convenience recorder records exactly one event, of a fixed type
\* and severity: rate_limit/warn, auth_failure/error, api_error/error,
\* fallback/warn, account_switch/info, health_change/error for 'disabled' and
\* /info for 'recovered', request/info on success and /warn on failure.
C27_RecorderTypeAndSeverity ==
    [][call'.op \in Recorders =>
        /\ Len(events') = Len(events) + 1
        /\ SubSeq(events', 1, Len(events)) = events
        /\ <<events'[Len(events')].type, events'[Len(events')].severity>>
              = FixedType(call'.op, call'.arg)
        /\ call'.ret = events'[Len(events')]
    ]_vars

\* A failed request was recorded after another event: request/warn
C27_Witness ==
    /\ call.op = "recordRequest"
    /\ ~call.arg.success
    /\ Len(events) > 1
    /\ events[Len(events)].type = "request"
    /\ events[Len(events)].severity = "warn"

----------------------------------------------------------------------------
(* Algebraic properties of the tracker *)

\* C28: toggleModel(a, m, true) is idempotent: applied twice in a row it
\* leaves the record of (a, m), every other record and the event log as they
\* were after the first application.
C28_EnableIdempotent ==
    [][call'.op = "toggleModel" /\ call'.arg =>
        LET a == call'.account
            m == Val(call'.model)
        IN  /\ toggleModel(health'[a][m], TRUE, now') = health'[a][m]
            /\ (call.op = "toggleModel" /\ call.arg /\ call.account = a /\ call.model = call'.model)
                  => health' = health /\ events' = events /\ isDirty' = isDirty
            /\ UNCHANGED <<eventVars, configVars>>
            /\ \A b \in Accounts : \A n \in DOMAIN health[b] :
                  <<b, n>> # <<a, m>> => health'[b][n] = health[b][n]
    ]_vars

\* A pair that failures had disabled was enabled by hand, next to another
\* pair that has a record
C28_Witness ==
    /\ call.op = "toggleModel" /\ call.arg
    /\ LET h == health[call.account][Val(call.model)]
       IN  /\ h.consecutiveFailures >= ShortThreshold
           /\ ~h.disabled /\ ~h.manualDisabled
           /\ h.disabledAt = Null
    /\ Cardinality(DOMAIN health[call.account]) > 1

\* The pairs a resetHealth call is about: the given model of the account, or
\* every model the account has a record for
ResetPairs(a, modelId) == IF modelId = Null THEN DOMAIN health[a] ELSE {Val(modelId)}

ModelIds == {Null} \cup {Some(m) : m \in Models}

\* What isModelUsable(a, m) returns in the next state
UsableNext(a, m) == ~HasHealth(a, m)' \/ isModelUsable(health[a][m], a, m, now)'.ret

\* Every record but those of the pairs ms of a is as it was
OthersUntouched(a, ms) ==
    \A b \in Accounts : \A n \in DOMAIN health[b] :
        ~(b = a /\ n \in ms) => HasHealth(b, n)' /\ health'[b][n] = health[b][n]

----------------------------------------------------------------------------
(* Router: pickAccount(modelId) over the account registry *)

\* The registry's emails, in lexicographic order
Emails == <<"a@x", "b@x">>

EmailRank(email) == CHOOSE i \in DOMAIN Emails : Emails[i] = email

\* account.health with the record h for modelId
WithHealth(account, modelId, h) ==
    [account EXCEPT !.health = [k \in DOMAIN account.health \cup {modelId} |->
                                  IF k = modelId THEN h ELSE account.health[k]]]

\* isModelUsable(account, modelId) on an account object: no record is usable
Usable(account, modelId, t) ==
    IF modelId \notin DOMAIN account.health
    THEN [account |-> account, emitted |-> <<>>, ret |-> TRUE]
    ELSE LET r == isModelUsable(account.health[modelId], account.email, modelId, t)
         IN  [account |-> WithHealth(account, modelId, r.health),
              emitted |-> r.emitted,
              ret     |-> r.ret]

\* The record the order reads: the synthetic "never used" record when missing
RecordOf(account, modelId) ==
    IF modelId \in DOMAIN account.health THEN account.health[modelId] ELSE initHealth

\* lastSuccess as a time; an account that never succeeded is the most stale
LastSuccessTime(h) == IF IsNull(h.lastSuccess) THEN -1 ELSE getTime(Val(h.lastSuccess))

\* Step 3: fewest consecutiveFailures, then highest healthScore, then most
\* stale lastSuccess, then email
Before(x, y, modelId) ==
    LET hx == RecordOf(x, modelId)
        hy == RecordOf(y, modelId)
    IN  \/ hx.consecutiveFailures < hy.consecutiveFailures
        \/ /\ hx.consecutiveFailures = hy.consecutiveFailures
           /\ \/ NumLess(hy.healthScore, hx.healthScore)
              \/ /\ hx.healthScore = hy.healthScore
                 /\ \/ LastSuccessTime(hx) < LastSuccessTime(hy)
                    \/ /\ LastSuccessTime(hx) = LastSuccessTime(hy)
                       /\ EmailRank(x.email) < EmailRank(y.email)

Unavailable == [unavailable |-> "no_usable_account"]

RECURSIVE Flatten(_)
Flatten(seqs) == IF seqs = <<>> THEN <<>> ELSE Head(seqs) \o Flatten(Tail(seqs))

\* pickAccount(modelId) on the registry accounts: the pick, the registry as the
\* usability checks leave it, and the health changes they report.  Step 1 asks
\* isModelUsable of enabled accounts only
pickAccount(accounts, modelId, t) ==
    LET checked == [i \in DOMAIN accounts |->
                      IF accounts[i].enabled
                      THEN Usable(accounts[i], modelId, t)
                      ELSE [account |-> accounts[i], emitted |-> <<>>, ret |-> FALSE]]
        after   == [i \in DOMAIN accounts |-> checked[i].account]
        U       == {i \in DOMAIN accounts : accounts[i].enabled /\ checked[i].ret}
        head    == CHOOSE i \in U : \A j \in U \ {i} : Before(after[i], after[j], modelId)
    IN  [accounts |-> after,
         emitted  |-> Flatten([i \in DOMAIN accounts |-> checked[i].emitted]),
         ret      |-> IF U = {}
                      THEN Unavailable
                      ELSE [account |-> after[head].email, upstreamModel |-> modelId]]

PickAccount(accounts, modelId, env) ==
    /\ LET r == pickAccount(accounts, modelId, now)
       IN  /\ Emit(r.emitted, env)
           /\ call' = Called("pickAccount", "", Some(modelId),
                             [accounts |-> accounts],
                             [picked |-> r.ret, accounts |-> r.accounts])
    /\ UNCHANGED <<healthVars, now, ticks, dashboard, results>>

\* The failure the registry's failing accounts met
Overloaded == Some([message |-> Some("overloaded"), code |-> Null, statusCode |-> Some(529)])

RECURSIVE FailedTimes(_, _, _, _, _)
\* The record after n failed requests in a row at time t
FailedTimes(h, a, m, n, t) ==
    IF n = 0 THEN h
    ELSE FailedTimes(recordResult(h, a, m, FALSE, Overloaded, t).health, a, m, n - 1, t)

\* The records an account holds for the model m: none; used with success;
\* failing; disabled by hand; and, when the tracker has disabled it, disabled
\* at time 0 by a streak of failures
HealthOf(a, m, tracked) ==
    {<<>>} \cup
    {[k \in {m} |-> h] :
       h \in {recordResult(initHealth, a, m, TRUE, Null, 0).health,
              FailedTimes(initHealth, a, m, 1, 0),
              toggleModel(initHealth, FALSE, 0)}
             \cup IF tracked
                  THEN {FailedTimes(initHealth, a, m, healthConfig.consecutiveFailureThreshold, 0)}
                  ELSE {}}

AccountObjects(a, tracked) ==
    {[email |-> a, enabled |-> enabled, health |-> h] :
       enabled \in BOOLEAN, h \in HealthOf(a, "m1", tracked)}

\* The registries: no account, one, or both; the tracker has disabled b@x at most
Registries ==
    {<<>>}
    \cup {<<x>> : x \in AccountObjects("a@x", FALSE) \cup AccountObjects("b@x", TRUE)}
    \cup {<<x, y>> : x \in AccountObjects("a@x", FALSE), y \in AccountObjects("b@x", TRUE)}

DoPickAccount ==
    \E accounts \in Registries, modelId \in Models, env \in Env({0}) :
        PickAccount(accounts, modelId, env)

\* Time passes between picks: a recovery period and a millisecond
DoRecoveryPeriod == Tick(healthConfig.autoRecoveryMs + 1)

NextRouter ==
    \/ DoPickAccount
    \/ DoRecoveryPeriod

SpecRouter == InitHealth /\ [][NextRouter]_vars

----------------------------------------------------------------------------
(* C30: the router returns only enabled accounts and usable pairs *)

\* An account pickAccount must pass over for modelId at time t: not enabled,
\* disabled by hand, or disabled by the tracker with the recovery period not over
Blocked(account, modelId, t) ==
    \/ ~account.enabled
    \/ /\ modelId \in DOMAIN account.health
       /\ LET h == account.health[modelId]
          IN  \/ h.manualDisabled
              \/ /\ h.disabled
                 /\ ~(/\ ~IsNull(h.disabledAt)
                      /\ t - getTime(Val(h.disabledAt)) > healthConfig.autoRecoveryMs)

----------------------------------------------------------------------------
(* C31: what toggleModel writes and what it leaves alone *)

\* The fields of a record that count and date its requests
UsageFields == {"successCount", "failCount", "consecutiveFailures", "healthScore",
                "lastSuccess", "lastError"}

\* C31: toggleModel(a, m, enabled) sets manualDisabled to not-enabled; with
\* enabled = true it also clears disabled, disabledReason and disabledAt; in
\* both cases successCount, failCount, consecutiveFailures, healthScore,
\* lastSuccess and lastError of the record are as before (as in the zero record
\* when the pair had none), no other record changes and no event is recorded.
C31_ToggleFrame ==
    [][\A a \in Accounts, m \in Models :
        call'.op = "toggleModel" /\ call'.account = a /\ call'.model = Some(m) =>
            /\ HasHealth(a, m)'
            /\ health'[a][m].manualDisabled = ~call'.arg
            /\ call'.arg => /\ ~health'[a][m].disabled
                            /\ health'[a][m].disabledReason = Null
                            /\ health'[a][m].disabledAt = Null
            /\ ~call'.arg => health'[a][m].disabled = EnsuredHealth(a, m).disabled
            /\ \A f \in UsageFields : health'[a][m][f] = EnsuredHealth(a, m)[f]
            /\ OthersUntouched(a, {m})
            /\ UNCHANGED <<eventVars, configVars>>
    ]_vars

\* A pair with successes and a failure behind it was disabled by hand, next to
\* another pair that has a record
C31_Witness ==
    /\ call.op = "toggleModel" /\ ~call.arg
    /\ LET h == health[call.account][Val(call.model)]
       IN  /\ h.manualDisabled
           /\ h.successCount > 0 /\ h.failCount > 0 /\ h.consecutiveFailures > 0
           /\ h.lastError # Null
    /\ Cardinality(DOMAIN health[call.account]) > 1

----------------------------------------------------------------------------
(* C32: record appends one event and returns it *)

\* eventData.x || d, for a field that is a non-empty string when supplied
Supplied(o, d) == IF o = Null THEN d ELSE Val(o)

\* C32: record appends exactly one event at the end of the log and sets dirty;
\* every event already in the log keeps its position and all its fields; the
\* event record returns is the stored one; its type defaults to system, its
\* severity to info, and account, model and requestId are null when not supplied.
C32_RecordAppends ==
    [][call'.op = "record" =>
        LET eventData == call'.arg
            stored    == events'[Len(events')]
        IN  /\ Len(events') = Len(events) + 1
            /\ SubSeq(events', 1, Len(events)) = events
            /\ isDirty'
            /\ call'.ret # TypeError => call'.ret = stored
            /\ stored.type = Supplied(eventData.type, "system")
            /\ stored.severity = Supplied(eventData.severity, "info")
            /\ stored.account = eventData.account
            /\ stored.model = eventData.model
            /\ stored.requestId = eventData.requestId
    ]_vars

\* An event that left every optional field out was recorded behind another
\* and returned, with a subscriber connected
C32_Witness ==
    /\ call.op = "record"
    /\ call.arg.type = Null /\ call.arg.account = Null
    /\ Len(events) >= 2
    /\ call.ret = events[Len(events)]
    /\ events[Len(events)].type = "system"
    /\ events[Len(events)].severity = "info"
    /\ events[Len(events)].account = Null
    /\ events[1].type = "request"
    /\ sseClients # <<>>

----------------------------------------------------------------------------
(* Health matrix: buildHealthMatrix(accounts, modelIds) *)

\* The account object of a, as the account manager hands it over: enabled is
\* a boolean, or left out
AccountObject(a, enabled) == [email |-> a, enabled |-> enabled, health |-> health[a]]

\* A cell that reports the tracker's flag only
ModelCellAutoOnly(h) ==
    [healthScore         |-> h.healthScore,
     successCount        |-> h.successCount,
     failCount           |-> h.failCount,
     consecutiveFailures |-> h.consecutiveFailures,
     disabled            |-> h.disabled,
     manualDisabled      |-> h.manualDisabled,
     lastError           |-> h.lastError,
     lastSuccess         |-> h.lastSuccess]

\* buildHealthMatrix, lines 901-910: the cell of a pair that has the record h
ModelCell(h) ==
    [healthScore         |-> h.healthScore,
     successCount        |-> h.successCount,
     failCount           |-> h.failCount,
     consecutiveFailures |-> h.consecutiveFailures,
     disabled            |-> h.disabled \/ h.manualDisabled,
     manualDisabled      |-> h.manualDisabled,
     lastError           |-> h.lastError,
     lastSuccess         |-> h.lastSuccess]

\* buildHealthMatrix, lines 913-922: the cell of a pair without a record
NoDataCell ==
    [healthScore         |-> Num(100, 1),
     successCount        |-> 0,
     failCount           |-> 0,
     consecutiveFailures |-> 0,
     disabled            |-> FALSE,
     manualDisabled      |-> FALSE,
     lastError           |-> Null,
     lastSuccess         |-> Null]

\* buildHealthMatrix(accounts, modelIds) at time t
buildHealthMatrix(accounts, modelIds, t) ==
    [accounts  |-> [i \in DOMAIN accounts |->
                      [email   |-> accounts[i].email,
                       enabled |-> accounts[i].enabled # Some(FALSE),
                       models  |-> [modelId \in Range(modelIds) |->
                                      IF modelId \in DOMAIN accounts[i].health
                                      THEN ModelCell(accounts[i].health[modelId])
                                      ELSE NoDataCell]]],
     models    |-> modelIds,
     generated |-> toISOString(t)]

BuildHealthMatrix(accounts, modelIds) ==
    /\ call' = Called("buildHealthMatrix", "", Null,
                      [accounts |-> accounts, modelIds |-> modelIds],
                      buildHealthMatrix(accounts, modelIds, now))
    /\ UNCHANGED <<healthVars, eventVars, now, ticks, dashboard, results>>

\* The model lists the dashboard asks for
ModelLists == {<<>>, <<"m1">>, <<"m1", "m2">>}

DoBuildHealthMatrix ==
    \E modelIds \in ModelLists, enabled \in {Null, Some(FALSE)} :
        BuildHealthMatrix(<<AccountObject("a@x", enabled)>>, modelIds)

\* The tracker on one pair with time passing, and the matrix read at any moment
NextMatrix ==
    \/ DoRecordResult({"m1"}, Errors, {0}, MaxTimed)
    \/ DoIsModelUsable({"m1"}, {0})
    \/ DoToggleModel({"m1"})
    \/ DoTick
    \/ DoBuildHealthMatrix

SpecMatrix == InitHealth /\ [][NextMatrix]_vars

----------------------------------------------------------------------------
(* C33: the matrix is a pure read of the records *)

\* C33: buildHealthMatrix changes no health record (it never performs
\* auto-recovery) and records no event; for every account and requested model
\* it returns a cell whose disabled field equals disabled or manualDisabled of
\* the record and whose counters and score equal the record's, and for a pair
\* with no record a cell with score 100, counters 0 and disabled =
\* manualDisabled = false.
C33_MatrixIsPureRead ==
    [][call'.op = "buildHealthMatrix" =>
        /\ UNCHANGED <<healthVars, eventVars>>
        /\ LET accounts == call'.arg.accounts
               modelIds == call'.arg.modelIds
               matrix   == call'.ret
           IN  /\ DOMAIN matrix.accounts = DOMAIN accounts
               /\ \A i \in DOMAIN accounts :
                    /\ DOMAIN matrix.accounts[i].models = Range(modelIds)
                    /\ \A m \in Range(modelIds) :
                         LET cell == matrix.accounts[i].models[m]
                             a    == accounts[i].email
                         IN  IF HasHealth(a, m)
                             THEN /\ cell.disabled = (health[a][m].disabled \/ health[a][m].manualDisabled)
                                  /\ cell.successCount = health[a][m].successCount
                                  /\ cell.failCount = health[a][m].failCount
                                  /\ cell.consecutiveFailures = health[a][m].consecutiveFailures
                                  /\ cell.healthScore = health[a][m].healthScore
                             ELSE /\ cell.healthScore = Num(100, 1)
                                  /\ cell.successCount = 0
                                  /\ cell.failCount = 0
                                  /\ cell.consecutiveFailures = 0
                                  /\ ~cell.disabled
                                  /\ ~cell.manualDisabled
    ]_vars

\* The matrix was read when the recovery period of a tracker-disabled pair
\* was over, and for a model without a record: the pair is still disabled
C33_Witness ==
    /\ call.op = "buildHealthMatrix"
    /\ call.arg.modelIds = <<"m1", "m2">>
    /\ HasHealth("a@x", "m1") /\ ~HasHealth("a@x", "m2")
    /\ health["a@x"]["m1"].disabled /\ ~health["a@x"]["m1"].manualDisabled
    /\ DisabledTime(health["a@x"]["m1"], now) > healthConfig.autoRecoveryMs
    /\ call.ret.accounts[1].models["m1"].disabled
    /\ call.ret.accounts[1].models["m2"] = NoDataCell

----------------------------------------------------------------------------
(* C34: the window of getStats *)

\* The logged events later than s that match the account and model asked for
Covered(options, s) ==
    SelectSeq(events, LAMBDA e :
        /\ getTime(e.timestamp) > s
        /\ options.account # Null => e.account = options.account
        /\ options.model # Null => e.model = options.model)

\* The entry of a count table, 0 for a key the table leaves out
Counted(table, key) == IF key \in DOMAIN table THEN table[key] ELSE 0

\* C34: for every since value s given to getStats, including s = 0, the
\* returned total and the per-type, per-severity, per-account and per-model
\* counts cover exactly the logged events whose timestamp is later than s and
\* that match the account and model filters; the window is the last 24 hours
\* only when since is not given.
C34_StatsWindow ==
    call.op = "getStats" =>
        LET options == call.arg
            s == IF options.since # Null THEN Val(options.since) ELSE now - MsPerDay
            covered == Covered(options, s)
            stats == call.ret
        IN  /\ stats.total = Len(covered)
            /\ \A type \in EventTypes :
                  Counted(stats.byType, type) = Count(covered, LAMBDA e : e.type = type)
            /\ \A severity \in Severities :
                  Counted(stats.bySeverity, severity)
                      = Count(covered, LAMBDA e : e.severity = severity)
            /\ \A account \in Accounts :
                  Counted(stats.byAccount, account)
                      = Count(covered, LAMBDA e : e.account = Some(account))
            /\ \A model \in Models :
                  Counted(stats.byModel, model) = Count(covered, LAMBDA e : e.model = Some(model))

----------------------------------------------------------------------------
(* The tracker while the operator switches auto-disable off and on *)

DoSetAutoDisable ==
    \E enabled \in BOOLEAN : SetHealthConfig([autoDisableEnabled |-> JSBoolean(enabled)])

NextSwitch ==
    \/ DoRecordResult({"m1"}, Errors, {0}, MaxStreak)
    \/ DoSetAutoDisable

SpecSwitch == InitHealth /\ [][NextSwitch]_vars

----------------------------------------------------------------------------
(* C35: no auto-disable while autoDisableEnabled is false *)

\* C35: while autoDisableEnabled is false, no recordResult call sets a
\* record's disabled flag to true or records a health_change 'disabled' event,
\* however many consecutive failures accumulate; a failure still increments
\* failCount and consecutiveFailures and healthScore is recomputed.
C35_NoAutoDisableWhenOff ==
    [][\A a \in Accounts, m \in Models :
        /\ call'.op = "recordResult" /\ call'.account = a /\ call'.model = Some(m)
        /\ ~healthConfig.autoDisableEnabled
        => /\ health'[a][m].disabled => EnsuredHealth(a, m).disabled
           /\ \/ events' = events
              \/ events'[Len(events')].details.change # "disabled"
           /\ ~call'.arg =>
                 /\ health'[a][m].failCount = EnsuredHealth(a, m).failCount + 1
                 /\ health'[a][m].consecutiveFailures
                        = EnsuredHealth(a, m).consecutiveFailures + 1
           /\ health'[a][m].healthScore = calculateScore(health'[a][m])
    ]_vars

\* With auto-disable switched off, a failure beyond the threshold left the
\* pair enabled and no event in the log
C35_Witness ==
    /\ call.op = "recordResult" /\ ~call.arg
    /\ ~healthConfig.autoDisableEnabled
    /\ LET h == health[call.account][Val(call.model)]
       IN  /\ h.consecutiveFailures > healthConfig.consecutiveFailureThreshold
           /\ h.failCount = h.consecutiveFailures
           /\ ~h.disabled
           /\ NumLess(h.healthScore, Num(100, 1))
    /\ events = <<>>

----------------------------------------------------------------------------
(* C36: the disabling stamp goes with the flags *)

\* C36: in every reachable state of a health record, disabledAt and
\* disabledReason are non-null if and only if disabled or manualDisabled is
\* true; a record the tracker has disabled carries the tracker's reason, and
\* it gets its disabledAt at the moment it is disabled.
C36_StampIffDisabled ==
    /\ [](\A a \in Accounts : \A m \in DOMAIN health[a] :
            LET h == health[a][m]
            IN  /\ h.disabledAt # Null <=> (h.disabled \/ h.manualDisabled)
                /\ h.disabledReason # Null <=> (h.disabled \/ h.manualDisabled)
                /\ h.disabled /\ ~h.manualDisabled => Val(h.disabledReason)[1] = "Auto: ")
    /\ [][\A a \in Accounts, m \in Models :
            HasHealth(a, m)' /\ health'[a][m].disabled /\ ~EnsuredHealth(a, m).disabled
               => health'[a][m].disabledAt = Some(toISOString(now))
       ]_vars

\* A pair the tracker disabled is still disabled, by the tracker alone, when
\* its recovery period is over
C36_Witness ==
    /\ HasHealth("a@x", "m1")
    /\ health["a@x"]["m1"].disabled /\ ~health["a@x"]["m1"].manualDisabled
    /\ health["a@x"]["m1"].disabledAt # Null
    /\ DisabledTime(health["a@x"]["m1"], now) > healthConfig.autoRecoveryMs

----------------------------------------------------------------------------
(* C37: the streak of a usable pair *)

\* A record in use with its streak at or above the threshold
StreakAtThreshold(h) ==
    /\ ~h.disabled /\ ~h.manualDisabled
    /\ h.consecutiveFailures >= healthConfig.consecutiveFailureThreshold

\* C37 as stated: with autoDisableEnabled true and an unchanged threshold,
\* every record that is neither disabled nor manualDisabled has
\* consecutiveFailures below the threshold, after any sequence of
\* recordResult, isModelUsable, toggleModel and resetHealth.
C37_UsableBelowThreshold ==
    \A a \in Accounts : \A m \in DOMAIN health[a] : ~StreakAtThreshold(health[a][m])

\* C37, amended: a record that is neither disabled nor manualDisabled has its
\* streak at or above the threshold only after toggleModel(a, m, true)
\* re-enabled it with such a streak, and until the next recordResult for the
\* pair: after every recordResult the record is disabled, manualDisabled or
\* below the threshold (a pair re-enabled by hand at the threshold is disabled
\* again by its next failure), and a pair that a success, the timeout or
\* resetHealth re-enables starts a new streak from 0.
C37_StreakAfterReenabling ==
    [][\A a \in Accounts, m \in Models :
        /\ (HasHealth(a, m)' /\ StreakAtThreshold(health'[a][m])) =>
              \/ StreakAtThreshold(EnsuredHealth(a, m))
              \/ call'.op = "toggleModel" /\ call'.arg
                    /\ call'.account = a /\ call'.model = Some(m)
        /\ (call'.op = "recordResult" /\ call'.account = a /\ call'.model = Some(m)) =>
              ~StreakAtThreshold(health'[a][m])
        /\ (EnsuredHealth(a, m).disabled /\ call'.op # "toggleModel"
              /\ HasHealth(a, m)' /\ ~health'[a][m].disabled) =>
              health'[a][m].consecutiveFailures = 0
    ]_vars

\* A pair re-enabled by hand at the threshold was disabled again by its next
\* failure, one failure past the threshold
C37_Witness ==
    /\ call.op = "recordResult" /\ ~call.arg
    /\ health[call.account][Val(call.model)].disabled
    /\ events # <<>>
    /\ events[Len(events)].details.change = "disabled"
    /\ events[Len(events)].details.consecutiveFailures
          = healthConfig.consecutiveFailureThreshold + 1

----------------------------------------------------------------------------
(* C38: health changes in the event log *)

\* The positions in the log of the health changes reported for the pair
HealthChangesOf(a, m) ==
    {i \in 1..Len(events) : /\ events[i].type = "health_change"
                            /\ events[i].account = Some(a)
                            /\ events[i].model = Some(m)}

\* The most recent health change in the log for the pair reports 'disabled'
LastReportsDisabled(a, m) ==
    /\ HealthChangesOf(a, m) # {}
    /\ events[CHOOSE i \in HealthChangesOf(a, m) : \A j \in HealthChangesOf(a, m) : j <= i].details.change = "disabled"

\* C38 as stated: in every reachable state, if the most recent health_change
\* event recorded for a pair reports 'disabled', then that pair's record has
\* disabled = true.
C38_LogAgreesWithHealth ==
    \A a \in Accounts, m \in Models :
        LastReportsDisabled(a, m) => HasHealth(a, m) /\ health[a][m].disabled

\* C38, amended: a change of disabled from true to false by a successful
\* recordResult or by the recovery timeout in isModelUsable appends a
\* 'recovered' health_change event for the pair in the same call; toggleModel
\* and resetHealth clear the flag (or the record) and record no event.
C38_RecoveredEventByTracker ==
    [][\A a \in Accounts, m \in Models :
        (HasHealth(a, m) /\ health[a][m].disabled
           /\ (HasHealth(a, m)' => ~health'[a][m].disabled)) =>
              \/ /\ call'.op \in {"recordResult", "isModelUsable"}
                 /\ call'.account = a /\ call'.model = Some(m)
                 /\ Len(events') = Len(events) + 1
                 /\ SubSeq(events', 1, Len(events)) = events
                 /\ events'[Len(events')].type = "health_change"
                 /\ events'[Len(events')].account = Some(a)
                 /\ events'[Len(events')].model = Some(m)
                 /\ events'[Len(events')].details.change = "recovered"
              \/ /\ call'.op \in {"toggleModel", "resetHealth"}
                 /\ call'.account = a
                 /\ events' = events
    ]_vars

\* A pair the tracker had disabled was enabled by hand: the log's last word
\* on it is still 'disabled'
C38_Witness ==
    /\ call.op = "toggleModel" /\ call.arg
    /\ LastReportsDisabled(call.account, Val(call.model))
    /\ ~health[call.account][Val(call.model)].disabled
    /\ ~health[call.account][Val(call.model)].manualDisabled

----------------------------------------------------------------------------
(* C39: the hand-over from replay to live *)

RECURSIVE DeliveredIn(_)
\* The events a subscriber was sent, in order: those of a history batch and
\* those of the single-event frames
DeliveredIn(frames) ==
    IF frames = <<>> THEN <<>>
    ELSE LET data == Head(frames)[2].json
         IN  (IF "array" \in DOMAIN data THEN data.array
              ELSE IF "id" \in DOMAIN data THEN <<data>>
              ELSE <<>>) \o DeliveredIn(Tail(frames))

\* The subscriber asked for history with a limit that covers the log it found
AskedWholeLog(c) ==
    /\ res[c].options # Null
    /\ Val(res[c].options).history
    /\ (IF Val(res[c].options).historyLimit = Null
        THEN HistoryLimitDefault
        ELSE Val(Val(res[c].options).historyLimit)) >= res[c].logLen

\* C39: for a subscriber in the live set that requested history with
\* historyLimit at least the log size, every event in the log has been
\* delivered to it exactly once, in the history batch or as a later
\* single-event frame: what it was sent, in order, is the log.
C39_HandOverExactlyOnce ==
    \A c \in Clients : Live(c) /\ AskedWholeLog(c) => DeliveredIn(res[c].frames) = events

\* A subscriber received a batch of the log it found and then an event
\* recorded after it subscribed
C39_Witness ==
    \E c \in Clients :
        /\ Live(c) /\ AskedWholeLog(c)
        /\ res[c].logLen >= 2
        /\ Len(events) > res[c].logLen
        /\ Len(res[c].frames) >= 3
        /\ "array" \in DOMAIN res[c].frames[2][2].json
        /\ Len(res[c].frames[2][2].json.array) = res[c].logLen
        /\ res[c].frames[3][2].json = events[res[c].logLen + 1]

----------------------------------------------------------------------------
(* Dashboard: the debounced writer of the health settings page *)

MaxEdits == 3

\* updateHealthConfig: the fields whose writes are debounced
numericFields ==
    {"consecutiveFailureThreshold", "autoRecoveryMs", "warningThreshold", "criticalThreshold",
     "eventMaxCount", "eventRetentionDays", "quotaPollIntervalMs", "staleIssueMs",
     "quotaThreshold"}

\* Object.keys(updates)[0], for the one-field updates the setters make
FirstField(updates) == CHOOSE k \in DOMAIN updates : TRUE

\* JSON.stringify(updates) as the server parses it: sliders send numbers,
\* switches booleans
Body(updates) ==
    [k \in DOMAIN updates |->
        IF k \in numericFields THEN JSNumber(updates[k]) ELSE JSBoolean(updates[k])]

\* updateHealthConfig(updates, optimistic) on the page: a numeric update
\* clears the one timer 'health_config' and sets it anew with these updates;
\* any other update is posted at once
updateHealthConfig(page, updates, optimistic) ==
    LET shown == IF optimistic THEN Spread(page.healthConfig, updates) ELSE page.healthConfig
    IN  IF FirstField(updates) \in numericFields
        THEN [page EXCEPT !.healthConfig = shown,
                          !.timer = Some(updates)]
        ELSE [page EXCEPT !.healthConfig = shown,
                          !.requests = Append(@, updates)]

\* The operator moves a slider or flips a switch
UpdateHealthConfig(updates, optimistic) ==
    /\ dashboard.edits < MaxEdits
    /\ dashboard' = [updateHealthConfig(dashboard, updates, optimistic) EXCEPT
                        !.edited = Spread(@, updates),
                        !.edits = @ + 1]
    /\ call' = Called("updateHealthConfig", "", Null, updates, Null)
    /\ UNCHANGED <<healthVars, eventVars, now, ticks, results>>

\* The debounce timer fires: its callback posts the updates it was set with
TimerFires ==
    /\ dashboard.timer # Null
    /\ dashboard' = [dashboard EXCEPT !.timer = Null,
                                      !.requests = Append(@, Val(dashboard.timer))]
    /\ call' = Called("executeHealthConfigUpdate", "", Null, Val(dashboard.timer), Null)
    /\ UNCHANGED <<healthVars, eventVars, now, ticks, results>>

\* The oldest POST /api/health/config reaches the server (requests arrive in
\* the order sent): setHealthConfig(body), answered with {status: 'ok', config}
\* or {status: 'error', errors}
PostHealthConfig ==
    /\ dashboard.requests # <<>>
    /\ LET r == setHealthConfig(Body(Head(dashboard.requests)))
           data == IF "error" \in DOMAIN r.ret
                   THEN [status |-> "error", errors |-> r.ret.errors]
                   ELSE [status |-> "ok", config |-> r.ret]
       IN  /\ healthConfig' = r.healthConfig
           /\ configFile' = r.configFile
           /\ dashboard' = [dashboard EXCEPT !.requests = Tail(@),
                                             !.responses = Append(@, data)]
           /\ call' = Called("POST /api/health/config", "", Null, Head(dashboard.requests), data)
    /\ UNCHANGED <<health, eventVars, now, ticks, results>>

\* executeHealthConfigUpdate resumes with the oldest answer: the page shows
\* data.config, or after an error what fetchHealthConfig reads from the server
ResponseArrives ==
    /\ dashboard.responses # <<>>
    /\ dashboard' = [dashboard EXCEPT
                        !.responses = Tail(@),
                        !.healthConfig = IF Head(dashboard.responses).status = "ok"
                                         THEN Head(dashboard.responses).config
                                         ELSE healthConfig]
    /\ call' = Called("response", "", Null, Head(dashboard.responses), Null)
    /\ UNCHANGED <<healthVars, eventVars, now, ticks, results>>

\* What the operator sets: setFailureThreshold(3), setFailureThreshold(4),
\* setWarnThreshold(60), and a switch bound to updateHealthConfig directly
SettingInputs ==
    {[consecutiveFailureThreshold |-> 3], [consecutiveFailureThreshold |-> 4],
     [warningThreshold |-> 60], [autoDisableEnabled |-> FALSE]}

DoUpdateHealthConfig == \E updates \in SettingInputs : UpdateHealthConfig(updates, TRUE)

NextDashboard ==
    \/ DoUpdateHealthConfig
    \/ TimerFires
    \/ PostHealthConfig
    \/ ResponseArrives

SpecDashboard == InitStreak /\ [][NextDashboard]_vars

----------------------------------------------------------------------------
(* C40: every changed setting reaches the server *)

\* No timer is pending, no request and no answer is under way
Settled ==
    /\ dashboard.timer = Null
    /\ dashboard.requests = <<>>
    /\ dashboard.responses = <<>>

\* C40: when several numeric health settings (possibly different fields) are
\* changed through updateHealthConfig within one debounce window, the latest
\* value of every changed field is eventually sent to POST /api/health/config:
\* once the timers have fired and the requests are answered, the server config
\* and the page hold the latest value set for every changed field.
C40_EveryChangeSent ==
    Settled =>
        \A k \in DOMAIN dashboard.edited :
            /\ healthConfig[k] = dashboard.edited[k]
            /\ dashboard.healthConfig[k] = dashboard.edited[k]

====
